---- MODULE Spec2Model ----
(***************************************************************************)
(* TCP user system server (Source/Private/TCP_System.cpp,                  *)
(* Source/Public/TCP_System.h): one thread per accepted connection, an     *)
(* account table and a session table shared between the threads.           *)
(*                                                                         *)
(* A std::string is a sequence of symbols.  The symbols are the protocol   *)
(* delimiter "|", the file delimiter ",", one symbol per command word and  *)
(* per fixed message text, and a few letters for ids, passwords and        *)
(* profile strings.  The empty std::string is the empty sequence.          *)
(***************************************************************************)
EXTENDS Integers, Sequences, FiniteSets, TLC

VARIABLES
    mainPc,             \* position of the thread running main()/startServer
    running,            \* TCPUserSystemServer::running
    now,                \* the value time(0) returns
    diskOk,             \* whether std::ofstream can open the data file
    users,              \* TCPUserSystemServer::users
    file,               \* the content of dataFile
    usersMutex,         \* holder of usersMutex (0: free)
    sessions,           \* TCPUserSystemServer::sessions: id -> session object
    sess,               \* the ClientSession object created by each thread
    fdOwner,            \* descriptor -> connection that owns it (0: closed)
    pc,                 \* position of each connection thread
    req,                \* ProtocolMessage being processed by each thread
    resp,               \* local variable `response` of each thread
    existingSessionId,  \* local of handleLoginConflict
    existingSession,    \* local of handleLoginConflict (0: null pointer)
    out,                \* frames written to each connection since its client's
                        \* last request: what that client has still to read
    frames,             \* number of frames the clients have sent so far
    cpc, cmsg, cparsed, cresult,  \* codec round trip: position, m, parse(m), serialize(parse(m))
    sessionsMutex,      \* holder of sessionsMutex (0: free)
    lop,                \* lock discipline: the operation each thread is running
    lpos,               \* lock discipline: how many of its steps the thread has made
    build,              \* stopServer: the branch of #ifdef _WIN32 that was compiled
    stopPc,             \* stopServer: position of the thread that called it
    joined,             \* stopServer: entries of clientThreads already waited for
    thread,             \* stopServer: state of the thread of each connection
    rpc,                \* receiveMessage: position / result
    rlen,               \* receiveMessage: message.length()
    rleft,              \* receiveMessage: bytes the peer sent before its newline, still unread
    spc,                \* sendMessage: position / result
    fullMessage,        \* sendMessage: message + "\n"
    totalSent,          \* sendMessage: totalSent
    wire,               \* sendMessage: the bytes the socket has taken, in order
    written,            \* byte stream: every byte the client has written
    inbound,            \* byte stream: bytes written that no recv has returned yet
    rmessage,           \* byte stream: local `message` of receiveMessage
    delivered,          \* byte stream: what receiveMessage has returned, in order
    kpc,                \* a second sendMessage on the same socket: position
    kSent               \* a second sendMessage on the same socket: totalSent

vars == <<mainPc, running, now, diskOk, users, file, usersMutex, sessions,
          sess, fdOwner, pc, req, resp, existingSessionId, existingSession,
          out, frames, cpc, cmsg, cparsed, cresult, sessionsMutex, lop, lpos,
          build, stopPc, joined, thread, rpc, rlen, rleft, spc, fullMessage,
          totalSent, wire, written, inbound, rmessage, delivered, kpc, kSent>>

serverVars == <<mainPc, running, now, diskOk, users, file, usersMutex,
                sessions, sess, fdOwner, pc, req, resp, existingSessionId,
                existingSession, out, frames>>

codecVars == <<cpc, cmsg, cparsed, cresult>>

lockVars == <<sessionsMutex, lop, lpos>>

stopVars == <<build, stopPc, joined, thread>>

streamVars == <<written, inbound, rmessage, delivered, kpc, kSent>>

socketVars == <<rpc, rlen, rleft, spc, fullMessage, totalSent, wire, written,
                inbound, rmessage, delivered, kpc, kSent>>

(***************************************************************************)
(* Bounds                                                                  *)
(***************************************************************************)
MaxWorkers == 2     \* connections accepted in one run
MaxClock == 1       \* seconds the clock advances during one run
MaxFrames == 3      \* frames the clients send in one run
MaxLen == 4         \* length of the raw lines of the codec round trip

Workers == 1..MaxWorkers
Fds == 1..MaxWorkers

(***************************************************************************)
(* Strings                                                                 *)
(***************************************************************************)
EmptyStr == <<>>
Str(c) == <<c>>

\* character codes, for the key order of std::map<std::string, User>
Code(c) == CASE c = "," -> 44
             [] c = "a" -> 97
             [] c = "b" -> 98
             [] c = "h" -> 104
             [] c = "p" -> 112
             [] c = "q" -> 113
             [] c = "|" -> 124
             [] OTHER   -> 65

RECURSIVE StrLess(_, _)
StrLess(s, t) ==
    IF t = <<>> THEN FALSE
    ELSE IF s = <<>> THEN TRUE
    ELSE IF Code(Head(s)) # Code(Head(t)) THEN Code(Head(s)) < Code(Head(t))
    ELSE StrLess(Tail(s), Tail(t))

\* std::getline(stream, token, delim) on a stream over s positioned at pos
GetLine(s, pos, delim) ==
    IF pos > Len(s)
    THEN [ok |-> FALSE, tok |-> <<>>, next |-> pos]
    ELSE LET ks == {k \in pos..Len(s) : s[k] = delim}
         IN  IF ks = {}
             THEN [ok |-> TRUE, tok |-> SubSeq(s, pos, Len(s)), next |-> Len(s) + 1]
             ELSE LET k == CHOOSE j \in ks : \A i \in ks : j <= i
                  IN  [ok |-> TRUE, tok |-> SubSeq(s, pos, k - 1), next |-> k + 1]

(***************************************************************************)
(* ProtocolMessage                                                         *)
(***************************************************************************)
RECURSIVE GetParameters(_, _)
GetParameters(s, pos) ==
    LET g == GetLine(s, pos, "|")
    IN  IF g.ok THEN <<g.tok>> \o GetParameters(s, g.next) ELSE <<>>

parse(message) ==
    LET g == GetLine(message, 1, "|")
    IN  IF g.ok
        THEN [command |-> g.tok, parameters |-> GetParameters(message, g.next)]
        ELSE [command |-> <<>>, parameters |-> <<>>]

RECURSIVE JoinParameters(_)
JoinParameters(ps) ==
    IF ps = <<>> THEN <<>> ELSE <<"|">> \o Head(ps) \o JoinParameters(Tail(ps))

serialize(msg) == msg.command \o JoinParameters(msg.parameters)

NoMessage == [command |-> <<>>, parameters |-> <<>>]

(***************************************************************************)
(* User                                                                    *)
(***************************************************************************)
User(id, pwd) == [userId |-> id, password |-> pwd, userString |-> <<>>]

\* a comparison that accepts every password
verifyAnyPassword(user, pwd) == TRUE

verifyPassword(user, pwd) == user.password = pwd

UserSerialize(user) == user.userId \o <<",">> \o user.password \o <<",">> \o user.userString

UserDeserialize(data) ==
    LET g1 == GetLine(data, 1, ",")
        g2 == GetLine(data, g1.next, ",")
        g3 == GetLine(data, g2.next, "\n")
    IN  [userId |-> g1.tok, password |-> g2.tok, userString |-> g3.tok]

(***************************************************************************)
(* Persistence                                                             *)
(***************************************************************************)
NoFile == [exists |-> FALSE, lines |-> <<>>]

RECURSIVE SortedKeys(_)
SortedKeys(S) ==
    IF S = {} THEN <<>>
    ELSE LET k == CHOOSE x \in S : \A y \in S \ {x} : StrLess(x, y)
         IN  <<k>> \o SortedKeys(S \ {k})

FileLines(u) ==
    LET keys == SortedKeys(DOMAIN u)
    IN  [i \in 1..Len(keys) |-> UserSerialize(u[keys[i]])]

\* a save on a disk that never refuses the file
saveToFileUnfailing(u, f, ok) == [exists |-> TRUE, lines |-> FileLines(u)]

\* the file after saveToFile() has run with account table u
saveToFile(u, f, ok) ==
    IF ok THEN [exists |-> TRUE, lines |-> FileLines(u)] ELSE f

\* an assignment that removes the key when it is already present
PutToggling(u, id, rec) ==
    [k \in IF id \in DOMAIN u THEN DOMAIN u \ {id} ELSE DOMAIN u \cup {id} |->
        IF k = id THEN rec ELSE u[k]]

Put(u, id, rec) == [k \in DOMAIN u \cup {id} |-> IF k = id THEN rec ELSE u[k]]

\* an erase that removes nothing
EraseNothing(u, id) == u

Erase(u, id) == [k \in DOMAIN u \ {id} |-> u[k]]

RECURSIVE LoadLines(_, _)
LoadLines(u, lines) ==
    IF lines = <<>> THEN u
    ELSE IF Head(lines) = <<>> THEN LoadLines(u, Tail(lines))
    ELSE LET user == UserDeserialize(Head(lines))
         IN  LoadLines(Put(u, user.userId, user), Tail(lines))

\* the account table after loadFromFile() has run on table u
loadFromFile(u, f) == IF f.exists THEN LoadLines(u, f.lines) ELSE u

EmptyUsers == [k \in {} |-> User(<<>>, <<>>)]

(***************************************************************************)
(* Responses of the server                                                 *)
(***************************************************************************)
Response(kind, text) == <<kind, "|", text>>

ErrAlreadyLoggedIn == Response("ERROR", "session already has a logged in user")
ErrNoSuchUser == Response("ERROR", "user does not exist")
ErrBadPassword == Response("ERROR", "wrong password")
ErrCancelled == Response("ERROR", "login cancelled")
ErrParameters == Response("ERROR", "not enough parameters")
ErrExists == Response("ERROR", "user id already exists")
ErrEmpty == Response("ERROR", "user id and password must not be empty")
ErrNotLoggedIn == Response("ERROR", "no user is logged in")
ErrLoginFirst == Response("ERROR", "log in first")
ErrPasswordEmpty == Response("ERROR", "password must not be empty")
ErrOldPassword == Response("ERROR", "wrong old password")
ErrUnknown(cmd) == <<"ERROR", "|", "unknown command: ">> \o cmd
OkLogin == Response("SUCCESS", "login ok")
OkForceLogin == Response("SUCCESS", "login ok, previous session evicted")
OkRegister == Response("SUCCESS", "user registered")
OkLogout == Response("SUCCESS", "logout ok")
OkDelete == Response("SUCCESS", "user deleted")
OkSetString == Response("SUCCESS", "user string updated")
OkChangePassword == Response("SUCCESS", "password changed")
OkGetString(str) == <<"SUCCESS", "|">> \o str
Conflict(id) == <<"CONFLICT", "|", "user is logged in elsewhere", "|">> \o id \o <<"|", "force login? (Y/N)">>
Kicked == Response("KICKED", "your account logged in elsewhere")
Welcome(id) == <<"WELCOME", "|", "TCP user system server", "|">> \o id
Goodbye == Response("GOODBYE", "thanks")

Kind(r) == IF r = <<>> THEN "" ELSE Head(r)

(***************************************************************************)
(* ClientSession                                                           *)
(***************************************************************************)
ClientSession(socket, id) ==
    [clientSocket |-> socket, sessionId |-> id, loggedInUser |-> <<>>, isActive |-> TRUE]

NoSession == [clientSocket |-> 0, sessionId |-> <<>>, loggedInUser |-> <<>>, isActive |-> TRUE]

\* a test that takes every session for a logged-in one
isLoggedInAlways(s) == TRUE

isLoggedIn(s) == s.loggedInUser # <<>>

\* srand(time(0)) followed by sixteen rand(): the id is a function of the second
generateSessionId(t) == <<"S" \o ToString(t)>>

\* a scan that returns the first entry, in key order, bound or not
findUserSessionAnyEntry(table, ss, userId) ==
    IF DOMAIN table = {} THEN <<>>
    ELSE CHOOSE k \in DOMAIN table : \A j \in DOMAIN table \ {k} : StrLess(k, j)

\* first entry, in key order, whose session is logged in as userId; "" if none
findUserSession(table, ss, userId) ==
    LET hits == {k \in DOMAIN table : isLoggedIn(ss[table[k]]) /\ ss[table[k]].loggedInUser = userId}
    IN  IF hits = {} THEN <<>>
        ELSE CHOOSE k \in hits : \A j \in hits \ {k} : StrLess(k, j)

\* a send that writes the frame twice
sendMessageTwice(o, owner, socket, message) ==
    IF socket \in DOMAIN owner /\ owner[socket] # 0
    THEN [o EXCEPT ![owner[socket]] = Append(Append(@, message), message)]
    ELSE o

\* frames on the connections after send(socket, message + "\n")
sendMessage(o, owner, socket, message) ==
    IF socket \in DOMAIN owner /\ owner[socket] # 0
    THEN [o EXCEPT ![owner[socket]] = Append(@, message)]
    ELSE o

\* a lock that never waits
UsersMutexNeverWaits == TRUE

\* SimpleMutex::lock returns once no other thread holds the mutex
UsersMutexFree == usersMutex = 0

(***************************************************************************)
(* What the clients send                                                   *)
(***************************************************************************)
Line(cmd, params) == serialize([command |-> <<cmd>>, parameters |-> params])

ClientLines ==
    { Line("REGISTER", <<Str("a"), Str("p")>>),
      Line("REGISTER", <<Str("a"), Str("q")>>),
      Line("REGISTER", <<<<>>, Str("p")>>),
      Line("REGISTER", <<Str("a"), <<>>, <<>>>>),
      Line("REGISTER", <<Str("a")>>),
      Line("LOGIN", <<Str("a"), Str("p")>>),
      Line("LOGIN", <<Str("a"), Str("q")>>),
      Line("FORCE_LOGIN", <<Str("a"), Str("p"), Str("Y")>>),
      Line("FORCE_LOGIN", <<Str("a"), Str("p"), Str("N")>>),
      Line("LOGOUT", <<>>),
      Line("DELETE", <<Str("a"), Str("p")>>),
      Line("CHANGE_PASSWORD", <<Str("q"), Str("p")>>),
      Line("CHANGE_PASSWORD", <<Str("p"), Str("q")>>),
      Line("SET_STRING", <<Str("h")>>),
      Line("GET_STRING", <<>>),
      Line("QUIT", <<>>),
      Line("NOP", <<>>) }

InitialFiles ==
    { NoFile,
      [exists |-> TRUE, lines |-> <<UserSerialize(User(Str("a"), Str("p")))>>] }

(***************************************************************************)
(* Initial state: the server object has been constructed                   *)
(***************************************************************************)
CodecIdle ==
    /\ cpc = "idle"
    /\ cmsg = <<>>
    /\ cparsed = NoMessage
    /\ cresult = <<>>

ServerInit ==
    /\ mainPc = "start"
    /\ running = FALSE
    /\ now = 0
    /\ diskOk = TRUE
    /\ file \in InitialFiles
    /\ users = loadFromFile(EmptyUsers, file)
    /\ usersMutex = 0
    /\ sessions = [k \in {} |-> 0]
    /\ sess = [w \in Workers |-> NoSession]
    /\ fdOwner = [f \in Fds |-> 0]
    /\ pc = [w \in Workers |-> "idle"]
    /\ req = [w \in Workers |-> NoMessage]
    /\ resp = [w \in Workers |-> <<>>]
    /\ existingSessionId = [w \in Workers |-> <<>>]
    /\ existingSession = [w \in Workers |-> 0]
    /\ out = [w \in Workers |-> <<>>]
    /\ frames = 0

LocksIdle ==
    /\ sessionsMutex = 0
    /\ lop = [w \in Workers |-> "none"]
    /\ lpos = [w \in Workers |-> 0]

\* stopServer has not been called, no thread has been created
StopIdle ==
    /\ build \in {"posix", "win32"}
    /\ stopPc = "idle"
    /\ joined = 0
    /\ thread = [w \in Workers |-> "none"]

\* no receiveMessage or sendMessage call is being followed byte by byte
SocketIdle ==
    /\ rpc = "idle"
    /\ rlen = 0
    /\ rleft = 0
    /\ spc = "idle"
    /\ fullMessage = <<>>
    /\ totalSent = 0
    /\ wire = <<>>
    /\ written = <<>>
    /\ inbound = <<>>
    /\ rmessage = <<>>
    /\ delivered = <<>>
    /\ kpc = "idle"
    /\ kSent = 0

\* the two builds differ in stopServer only; elsewhere the build of the
\* Makefile is followed
Init ==
    /\ ServerInit /\ CodecIdle /\ LocksIdle /\ StopIdle /\ SocketIdle
    /\ build = "posix"

(***************************************************************************)
(* main thread, clock, signal handler                                      *)
(***************************************************************************)
StartServer ==
    /\ mainPc = "start"
    /\ mainPc' = "accept"
    /\ running' = TRUE
    /\ UNCHANGED <<now, diskOk, users, file, usersMutex, sessions, sess, fdOwner,
                   pc, req, resp, existingSessionId, existingSession, out, frames>>
    /\ UNCHANGED <<codecVars, lockVars, stopVars, socketVars>>

Tick ==
    /\ now < MaxClock
    /\ \E w \in Workers : pc[w] = "idle"
    /\ now' = now + 1
    /\ UNCHANGED <<mainPc, running, diskOk, users, file, usersMutex, sessions, sess,
                   fdOwner, pc, req, resp, existingSessionId, existingSession, out, frames>>
    /\ UNCHANGED <<codecVars, lockVars, stopVars, socketVars>>

StopServer ==
    /\ running
    /\ running' = FALSE
    /\ UNCHANGED <<mainPc, now, diskOk, users, file, usersMutex, sessions, sess,
                   fdOwner, pc, req, resp, existingSessionId, existingSession, out, frames>>
    /\ UNCHANGED <<codecVars, lockVars, stopVars, socketVars>>

\* while (running.load()) has read false: startServer returns
AcceptLoopExit ==
    /\ mainPc = "accept"
    /\ ~running
    /\ mainPc' = "exit"
    /\ UNCHANGED <<running, now, diskOk, users, file, usersMutex, sessions, sess,
                   fdOwner, pc, req, resp, existingSessionId, existingSession, out, frames>>
    /\ UNCHANGED <<codecVars, lockVars, stopVars, socketVars>>

\* accept() returns the lowest free descriptor; the new thread creates its session
Accept(w) ==
    /\ mainPc = "accept"
    /\ running
    /\ pc[w] = "idle"
    /\ \A v \in Workers : v < w => pc[v] # "idle"
    /\ \E fd \in Fds :
        /\ fdOwner[fd] = 0
        /\ \A g \in Fds : g < fd => fdOwner[g] # 0
        /\ fdOwner' = [fdOwner EXCEPT ![fd] = w]
        /\ sess' = [sess EXCEPT ![w] = ClientSession(fd, generateSessionId(now))]
    /\ pc' = [pc EXCEPT ![w] = "register"]
    /\ UNCHANGED <<mainPc, running, now, diskOk, users, file, usersMutex, sessions,
                   req, resp, existingSessionId, existingSession, out, frames>>
    /\ UNCHANGED <<codecVars, lockVars, stopVars, socketVars>>

(***************************************************************************)
(* handleClient                                                            *)
(***************************************************************************)
Command(w) == req[w].command
Parameters(w) == req[w].parameters
Dispatching(w, cmd, n) ==
    /\ pc[w] = "dispatch"
    /\ Command(w) = Str(cmd)
    /\ Len(Parameters(w)) >= n

\* sessions[sessionId] = session
RegisterSession(w) ==
    /\ pc[w] = "register"
    /\ sessions' = Put(sessions, sess[w].sessionId, w)
    /\ pc' = [pc EXCEPT ![w] = "welcome"]
    /\ UNCHANGED <<mainPc, running, now, diskOk, users, file, usersMutex, sess, fdOwner,
                   req, resp, existingSessionId, existingSession, out, frames>>
    /\ UNCHANGED <<codecVars, lockVars, stopVars, socketVars>>

SendWelcome(w) ==
    /\ pc[w] = "welcome"
    /\ out' = sendMessage(out, fdOwner, sess[w].clientSocket, Welcome(sess[w].sessionId))
    /\ pc' = [pc EXCEPT ![w] = "loop"]
    /\ UNCHANGED <<mainPc, running, now, diskOk, users, file, usersMutex, sessions, sess,
                   fdOwner, req, resp, existingSessionId, existingSession, frames>>
    /\ UNCHANGED <<codecVars, lockVars, stopVars, socketVars>>

\* while (running.load() && session->getIsActive())
LoopCheck(w) ==
    /\ pc[w] = "loop"
    /\ pc' = [pc EXCEPT ![w] = IF running /\ sess[w].isActive THEN "receive" ELSE "cleanup"]
    /\ UNCHANGED <<mainPc, running, now, diskOk, users, file, usersMutex, sessions, sess,
                   fdOwner, req, resp, existingSessionId, existingSession, out, frames>>
    /\ UNCHANGED <<codecVars, lockVars, stopVars, socketVars>>

\* The client, having read what the server wrote, sends one of `lines`;
\* receiveMessage returns it and processClientMessage parses it
ReceiveLine(w, lines) ==
    /\ pc[w] = "receive"
    /\ frames < MaxFrames
    /\ \E line \in lines :
        /\ req' = [req EXCEPT ![w] = parse(line)]
    /\ frames' = frames + 1
    /\ out' = [out EXCEPT ![w] = <<>>]
    /\ pc' = [pc EXCEPT ![w] = "dispatch"]
    /\ UNCHANGED <<mainPc, running, now, diskOk, users, file, usersMutex, sessions, sess,
                   fdOwner, resp, existingSessionId, existingSession>>
    /\ UNCHANGED <<codecVars, lockVars, stopVars, socketVars>>

Receive(w) == ReceiveLine(w, ClientLines)

\* receiveMessage returns "": peer closed, timeout, or an empty line
ReceiveNothing(w) ==
    /\ pc[w] = "receive"
    /\ pc' = [pc EXCEPT ![w] = "cleanup"]
    /\ UNCHANGED <<mainPc, running, now, diskOk, users, file, usersMutex, sessions, sess,
                   fdOwner, req, resp, existingSessionId, existingSession, out, frames>>
    /\ UNCHANGED <<codecVars, lockVars, stopVars, socketVars>>

\* sendMessage(session->getSocket(), response) at the end of processClientMessage
Respond(w) ==
    /\ pc[w] = "respond"
    /\ out' = sendMessage(out, fdOwner, sess[w].clientSocket, resp[w])
    /\ req' = [req EXCEPT ![w] = NoMessage]
    /\ resp' = [resp EXCEPT ![w] = <<>>]
    /\ pc' = [pc EXCEPT ![w] = "loop"]
    /\ UNCHANGED <<mainPc, running, now, diskOk, users, file, usersMutex, sessions, sess,
                   fdOwner, existingSessionId, existingSession, frames>>
    /\ UNCHANGED <<codecVars, lockVars, stopVars, socketVars>>

\* a teardown that leaves the sessions map as it is
CleanupKeepingEntry(w) ==
    /\ pc[w] = "cleanup"
    /\ pc' = [pc EXCEPT ![w] = "close"]
    /\ UNCHANGED <<mainPc, running, now, diskOk, users, file, usersMutex, sessions, sess,
                   fdOwner, req, resp, existingSessionId, existingSession, out, frames>>
    /\ UNCHANGED <<codecVars, lockVars, stopVars, socketVars>>

\* sessions.erase(sessionId)
Cleanup(w) ==
    /\ pc[w] = "cleanup"
    /\ sessions' = Erase(sessions, sess[w].sessionId)
    /\ pc' = [pc EXCEPT ![w] = "close"]
    /\ UNCHANGED <<mainPc, running, now, diskOk, users, file, usersMutex, sess, fdOwner,
                   req, resp, existingSessionId, existingSession, out, frames>>
    /\ UNCHANGED <<codecVars, lockVars, stopVars, socketVars>>

\* closesocket(clientSocket); the thread ends and drops its reference to the
\* session object, which ~SimpleSharedPtr deletes unless an evictor holds one
CloseSocket(w) ==
    /\ pc[w] = "close"
    /\ fdOwner' = [fdOwner EXCEPT ![sess[w].clientSocket] = 0]
    /\ out' = [out EXCEPT ![w] = <<>>]
    /\ sess' = IF \E v \in Workers : existingSession[v] = w
               THEN sess ELSE [sess EXCEPT ![w] = NoSession]
    /\ pc' = [pc EXCEPT ![w] = "done"]
    /\ UNCHANGED <<mainPc, running, now, diskOk, users, file, usersMutex, sessions,
                   req, resp, existingSessionId, existingSession, frames>>
    /\ UNCHANGED <<codecVars, lockVars, stopVars, socketVars>>

(***************************************************************************)
(* processClientMessage: commands without an operation                     *)
(***************************************************************************)
Required(cmd) ==
    CASE cmd = Str("REGISTER") -> 2
      [] cmd = Str("LOGIN") -> 2
      [] cmd = Str("FORCE_LOGIN") -> 3
      [] cmd = Str("DELETE") -> 2
      [] cmd = Str("CHANGE_PASSWORD") -> 2
      [] cmd = Str("SET_STRING") -> 1
      [] OTHER -> 0

KnownCommands ==
    { Str("REGISTER"), Str("LOGIN"), Str("FORCE_LOGIN"), Str("LOGOUT"), Str("DELETE"),
      Str("CHANGE_PASSWORD"), Str("SET_STRING"), Str("GET_STRING"), Str("QUIT") }

Reply(w, r) ==
    /\ resp' = [resp EXCEPT ![w] = r]
    /\ pc' = [pc EXCEPT ![w] = "respond"]

\* response = "ERROR|not enough parameters"
ParameterError(w) ==
    /\ pc[w] = "dispatch"
    /\ Command(w) \in KnownCommands
    /\ Len(Parameters(w)) < Required(Command(w))
    /\ Reply(w, ErrParameters)
    /\ UNCHANGED <<mainPc, running, now, diskOk, users, file, usersMutex, sessions, sess,
                   fdOwner, req, existingSessionId, existingSession, out, frames>>
    /\ UNCHANGED <<codecVars, lockVars, stopVars, socketVars>>

UnknownCommand(w) ==
    /\ pc[w] = "dispatch"
    /\ Command(w) \notin KnownCommands
    /\ Reply(w, ErrUnknown(Command(w)))
    /\ UNCHANGED <<mainPc, running, now, diskOk, users, file, usersMutex, sessions, sess,
                   fdOwner, req, existingSessionId, existingSession, out, frames>>
    /\ UNCHANGED <<codecVars, lockVars, stopVars, socketVars>>

\* QUIT: GOODBYE is sent, the session is marked inactive, no other response
Quit(w) ==
    /\ Dispatching(w, "QUIT", 0)
    /\ out' = sendMessage(out, fdOwner, sess[w].clientSocket, Goodbye)
    /\ sess' = [sess EXCEPT ![w].isActive = FALSE]
    /\ req' = [req EXCEPT ![w] = NoMessage]
    /\ pc' = [pc EXCEPT ![w] = "loop"]
    /\ UNCHANGED <<mainPc, running, now, diskOk, users, file, usersMutex, sessions,
                   fdOwner, resp, existingSessionId, existingSession, frames>>
    /\ UNCHANGED <<codecVars, lockVars, stopVars, socketVars>>

(***************************************************************************)
(* registerUser                                                            *)
(***************************************************************************)
\* registerUser without the check for empty fields
registerUserUnchecked(u, userId, password) ==
    IF userId \in DOMAIN u THEN ErrExists ELSE OkRegister

registerUser(u, userId, password) ==
    IF userId \in DOMAIN u THEN ErrExists
    ELSE IF userId = <<>> \/ password = <<>> THEN ErrEmpty
    ELSE OkRegister

\* usersMutex is taken, the two checks are made
RegisterUser(w) ==
    /\ Dispatching(w, "REGISTER", 2)
    /\ UsersMutexFree
    /\ LET r == registerUser(users, Parameters(w)[1], Parameters(w)[2])
       IN  IF r = OkRegister
           THEN /\ usersMutex' = w
                /\ pc' = [pc EXCEPT ![w] = "register_insert"]
                /\ UNCHANGED resp
           ELSE /\ usersMutex' = 0
                /\ Reply(w, r)
    /\ UNCHANGED <<mainPc, running, now, diskOk, users, file, sessions, sess,
                   fdOwner, req, existingSessionId, existingSession, out, frames>>
    /\ UNCHANGED <<codecVars, lockVars, stopVars, socketVars>>

\* users[userId] = User(userId, password); saveToFile(); the mutex is released
RegisterInsert(w) ==
    /\ pc[w] = "register_insert"
    /\ users' = Put(users, Parameters(w)[1], User(Parameters(w)[1], Parameters(w)[2]))
    /\ file' = saveToFile(users', file, diskOk)
    /\ usersMutex' = 0
    /\ Reply(w, OkRegister)
    /\ UNCHANGED <<mainPc, running, now, diskOk, sessions, sess,
                   fdOwner, req, existingSessionId, existingSession, out, frames>>
    /\ UNCHANGED <<codecVars, lockVars, stopVars, socketVars>>

(***************************************************************************)
(* loginUser                                                               *)
(***************************************************************************)
Bind(ss, w, userId) == [ss EXCEPT ![w].loggedInUser = userId]

\* the session test alone, the account and the password taken on trust
checkCredentialsSessionOnly(s, u, userId, password) ==
    IF isLoggedIn(s) THEN ErrAlreadyLoggedIn ELSE <<>>

\* the same checks with the account looked up before the session is tested
checkCredentialsAccountFirst(s, u, userId, password) ==
    IF userId \notin DOMAIN u THEN ErrNoSuchUser
    ELSE IF ~verifyPassword(u[userId], password) THEN ErrBadPassword
    ELSE IF isLoggedIn(s) THEN ErrAlreadyLoggedIn
    ELSE <<>>

\* the checks both loginUser and handleLoginConflict make first; "" when they pass
checkCredentials(s, u, userId, password) ==
    IF isLoggedIn(s) THEN ErrAlreadyLoggedIn
    ELSE IF userId \notin DOMAIN u THEN ErrNoSuchUser
    ELSE IF ~verifyPassword(u[userId], password) THEN ErrBadPassword
    ELSE <<>>

loginUser(s, u, table, ss, userId, password) ==
    LET c == checkCredentials(s, u, userId, password)
        e == findUserSession(table, ss, userId)
    IN  IF c # <<>> THEN c
        ELSE IF e # <<>> THEN Conflict(e)
        ELSE OkLogin

LoginUser(w) ==
    /\ Dispatching(w, "LOGIN", 2)
    /\ UsersMutexFree
    /\ LET r == loginUser(sess[w], users, sessions, sess, Parameters(w)[1], Parameters(w)[2])
       IN  /\ sess' = IF r = OkLogin THEN Bind(sess, w, Parameters(w)[1]) ELSE sess
           /\ Reply(w, r)
    /\ UNCHANGED <<mainPc, running, now, diskOk, users, file, usersMutex, sessions,
                   fdOwner, req, existingSessionId, existingSession, out, frames>>
    /\ UNCHANGED <<codecVars, lockVars, stopVars, socketVars>>

(***************************************************************************)
(* handleLoginConflict                                                     *)
(***************************************************************************)
forceLoginChoice(choice) == choice = Str("Y") \/ choice = Str("y")

\* what handleLoginConflict does once the credentials are checked and
\* findUserSession has returned e: "bind", "cancel" or "evict"
conflictDecision(e, forceLogin) ==
    IF e = <<>> THEN "bind"
    ELSE IF ~forceLogin THEN "cancel"
    ELSE "evict"

HandleLoginConflict(w) ==
    /\ Dispatching(w, "FORCE_LOGIN", 3)
    /\ UsersMutexFree
    /\ LET userId == Parameters(w)[1]
           c == checkCredentials(sess[w], users, userId, Parameters(w)[2])
           e == findUserSession(sessions, sess, userId)
           d == conflictDecision(e, forceLoginChoice(Parameters(w)[3]))
       IN  IF c # <<>>
           THEN /\ Reply(w, c)
                /\ UNCHANGED <<usersMutex, sess, existingSessionId>>
           ELSE IF d = "bind"
           THEN /\ sess' = Bind(sess, w, userId)
                /\ Reply(w, OkForceLogin)
                /\ UNCHANGED <<usersMutex, existingSessionId>>
           ELSE IF d = "cancel"
           THEN /\ Reply(w, ErrCancelled)
                /\ UNCHANGED <<usersMutex, sess, existingSessionId>>
           ELSE /\ usersMutex' = w
                /\ existingSessionId' = [existingSessionId EXCEPT ![w] = e]
                /\ pc' = [pc EXCEPT ![w] = "force_lookup"]
                /\ UNCHANGED <<sess, resp>>
    /\ UNCHANGED <<mainPc, running, now, diskOk, users, file, sessions,
                   fdOwner, req, existingSession, out, frames>>
    /\ UNCHANGED <<codecVars, lockVars, stopVars, socketVars>>

\* sessions.find(existingSessionId) under sessionsMutex
ForceLookup(w) ==
    /\ pc[w] = "force_lookup"
    /\ existingSession' = [existingSession EXCEPT ![w] =
            IF existingSessionId[w] \in DOMAIN sessions
            THEN sessions[existingSessionId[w]] ELSE 0]
    /\ pc' = [pc EXCEPT ![w] = "force_kick"]
    /\ UNCHANGED <<mainPc, running, now, diskOk, users, file, usersMutex, sessions, sess,
                   fdOwner, req, resp, existingSessionId, out, frames>>
    /\ UNCHANGED <<codecVars, lockVars, stopVars, socketVars>>

\* the session object after setLoggedInUser("") alone
EvictedStillActive(s) == [s EXCEPT !.loggedInUser = <<>>]

\* the session object after setLoggedInUser("") and setInactive()
Evicted(s) == [s EXCEPT !.loggedInUser = <<>>, !.isActive = FALSE]

\* KICKED is sent and the existing session cleared, the caller is bound,
\* the mutex is released
ForceKick(w) ==
    /\ pc[w] = "force_kick"
    /\ LET x == existingSession[w]
       IN  IF x # 0
           THEN /\ out' = sendMessage(out, fdOwner, sess[x].clientSocket, Kicked)
                /\ sess' = Bind([sess EXCEPT ![x] = IF pc[x] = "done" THEN NoSession ELSE Evicted(@)],
                                w, Parameters(w)[1])
           ELSE /\ out' = out
                /\ sess' = Bind(sess, w, Parameters(w)[1])
    /\ usersMutex' = 0
    /\ existingSessionId' = [existingSessionId EXCEPT ![w] = <<>>]
    /\ existingSession' = [existingSession EXCEPT ![w] = 0]
    /\ Reply(w, OkForceLogin)
    /\ UNCHANGED <<mainPc, running, now, diskOk, users, file, sessions,
                   fdOwner, req, frames>>
    /\ UNCHANGED <<codecVars, lockVars, stopVars, socketVars>>

(***************************************************************************)
(* logoutUser, deleteUser                                                  *)
(***************************************************************************)
LogoutUser(w) ==
    /\ Dispatching(w, "LOGOUT", 0)
    /\ IF isLoggedIn(sess[w])
       THEN /\ sess' = Bind(sess, w, <<>>)
            /\ Reply(w, OkLogout)
       ELSE /\ sess' = sess
            /\ Reply(w, ErrNotLoggedIn)
    /\ UNCHANGED <<mainPc, running, now, diskOk, users, file, usersMutex, sessions,
                   fdOwner, req, existingSessionId, existingSession, out, frames>>
    /\ UNCHANGED <<codecVars, lockVars, stopVars, socketVars>>

\* deleteUser without the password verification
deleteUserNoPassword(u, userId, password) ==
    IF userId \notin DOMAIN u THEN ErrNoSuchUser ELSE OkDelete

deleteUser(u, userId, password) ==
    IF userId \notin DOMAIN u THEN ErrNoSuchUser
    ELSE IF ~verifyPassword(u[userId], password) THEN ErrBadPassword
    ELSE OkDelete

DeleteUser(w) ==
    /\ Dispatching(w, "DELETE", 2)
    /\ UsersMutexFree
    /\ LET userId == Parameters(w)[1]
           r == deleteUser(users, userId, Parameters(w)[2])
       IN  /\ Reply(w, r)
           /\ IF r = OkDelete
              THEN /\ sess' = IF sess[w].loggedInUser = userId THEN Bind(sess, w, <<>>) ELSE sess
                   /\ users' = Erase(users, userId)
                   /\ file' = saveToFile(users', file, diskOk)
              ELSE UNCHANGED <<sess, users, file>>
    /\ UNCHANGED <<mainPc, running, now, diskOk, usersMutex, sessions,
                   fdOwner, req, existingSessionId, existingSession, out, frames>>
    /\ UNCHANGED <<codecVars, lockVars, stopVars, socketVars>>

(***************************************************************************)
(* setUserString, getUserString, changePassword                            *)
(***************************************************************************)
\* the checks made before usersMutex is taken; "" when they pass
PreCheck(w, r) ==
    /\ IF r = <<>>
       THEN /\ pc' = [pc EXCEPT ![w] = "locked"]
            /\ UNCHANGED resp
       ELSE Reply(w, r)
    /\ UNCHANGED <<mainPc, running, now, diskOk, users, file, usersMutex, sessions, sess,
                   fdOwner, req, existingSessionId, existingSession, out, frames>>
    /\ UNCHANGED <<codecVars, lockVars, stopVars, socketVars>>

Locked(w, cmd) ==
    /\ pc[w] = "locked"
    /\ Command(w) = Str(cmd)
    /\ UsersMutexFree

SetUserString(w) ==
    /\ Dispatching(w, "SET_STRING", 1)
    /\ PreCheck(w, IF isLoggedIn(sess[w]) THEN <<>> ELSE ErrLoginFirst)

SetUserStringLocked(w) ==
    /\ Locked(w, "SET_STRING")
    /\ LET userId == sess[w].loggedInUser
       IN  IF userId \in DOMAIN users
           THEN /\ users' = [users EXCEPT ![userId].userString = Parameters(w)[1]]
                /\ file' = saveToFile(users', file, diskOk)
                /\ Reply(w, OkSetString)
           ELSE /\ UNCHANGED <<users, file>>
                /\ Reply(w, ErrNoSuchUser)
    /\ UNCHANGED <<mainPc, running, now, diskOk, usersMutex, sessions, sess,
                   fdOwner, req, existingSessionId, existingSession, out, frames>>
    /\ UNCHANGED <<codecVars, lockVars, stopVars, socketVars>>

GetUserString(w) ==
    /\ Dispatching(w, "GET_STRING", 0)
    /\ PreCheck(w, IF isLoggedIn(sess[w]) THEN <<>> ELSE ErrLoginFirst)

GetUserStringLocked(w) ==
    /\ Locked(w, "GET_STRING")
    /\ LET userId == sess[w].loggedInUser
       IN  Reply(w, IF userId \in DOMAIN users
                    THEN OkGetString(users[userId].userString) ELSE ErrNoSuchUser)
    /\ UNCHANGED <<mainPc, running, now, diskOk, users, file, usersMutex, sessions, sess,
                   fdOwner, req, existingSessionId, existingSession, out, frames>>
    /\ UNCHANGED <<codecVars, lockVars, stopVars, socketVars>>

changePasswordPreCheck(s, oldPassword, newPassword) ==
    IF ~isLoggedIn(s) THEN ErrLoginFirst
    ELSE IF oldPassword = <<>> \/ newPassword = <<>> THEN ErrPasswordEmpty
    ELSE <<>>

changePassword(u, userId, oldPassword) ==
    IF userId \notin DOMAIN u THEN ErrNoSuchUser
    ELSE IF ~verifyPassword(u[userId], oldPassword) THEN ErrOldPassword
    ELSE OkChangePassword

ChangePassword(w) ==
    /\ Dispatching(w, "CHANGE_PASSWORD", 2)
    /\ PreCheck(w, changePasswordPreCheck(sess[w], Parameters(w)[1], Parameters(w)[2]))

ChangePasswordLocked(w) ==
    /\ Locked(w, "CHANGE_PASSWORD")
    /\ LET userId == sess[w].loggedInUser
           r == changePassword(users, userId, Parameters(w)[1])
       IN  /\ Reply(w, r)
           /\ IF r = OkChangePassword
              THEN /\ users' = [users EXCEPT ![userId].password = Parameters(w)[2]]
                   /\ file' = saveToFile(users', file, diskOk)
              ELSE UNCHANGED <<users, file>>
    /\ UNCHANGED <<mainPc, running, now, diskOk, usersMutex, sessions, sess,
                   fdOwner, req, existingSessionId, existingSession, out, frames>>
    /\ UNCHANGED <<codecVars, lockVars, stopVars, socketVars>>

(***************************************************************************)
(* The server                                                              *)
(***************************************************************************)
Next ==
    \/ StartServer
    \/ Tick
    \/ StopServer
    \/ AcceptLoopExit
    \/ \E w \in Workers : Accept(w)
    \/ \E w \in Workers : RegisterSession(w)
    \/ \E w \in Workers : SendWelcome(w)
    \/ \E w \in Workers : LoopCheck(w)
    \/ \E w \in Workers : Receive(w)
    \/ \E w \in Workers : ReceiveNothing(w)
    \/ \E w \in Workers : ParameterError(w)
    \/ \E w \in Workers : UnknownCommand(w)
    \/ \E w \in Workers : Quit(w)
    \/ \E w \in Workers : RegisterUser(w)
    \/ \E w \in Workers : RegisterInsert(w)
    \/ \E w \in Workers : LoginUser(w)
    \/ \E w \in Workers : HandleLoginConflict(w)
    \/ \E w \in Workers : ForceLookup(w)
    \/ \E w \in Workers : ForceKick(w)
    \/ \E w \in Workers : LogoutUser(w)
    \/ \E w \in Workers : DeleteUser(w)
    \/ \E w \in Workers : SetUserString(w)
    \/ \E w \in Workers : SetUserStringLocked(w)
    \/ \E w \in Workers : GetUserString(w)
    \/ \E w \in Workers : GetUserStringLocked(w)
    \/ \E w \in Workers : ChangePassword(w)
    \/ \E w \in Workers : ChangePasswordLocked(w)
    \/ \E w \in Workers : Respond(w)
    \/ \E w \in Workers : Cleanup(w)
    \/ \E w \in Workers : CloseSocket(w)

Spec == Init /\ [][Next]_vars

(***************************************************************************)
(* Registration only: the clients send nothing but REGISTER frames         *)
(***************************************************************************)
RegisterLines ==
    { Line("REGISTER", <<Str("a"), Str("p")>>),
      Line("REGISTER", <<Str("a"), Str("q")>>),
      Line("REGISTER", <<Str("b"), Str("p")>>),
      Line("REGISTER", <<<<>>, Str("p")>>),
      Line("REGISTER", <<Str("a"), <<>>, <<>>>>),
      Line("REGISTER", <<Str("a")>>) }

ReceiveRegister(w) == ReceiveLine(w, RegisterLines)

NextRegister ==
    \/ StartServer
    \/ Tick
    \/ StopServer
    \/ AcceptLoopExit
    \/ \E w \in Workers : Accept(w)
    \/ \E w \in Workers : RegisterSession(w)
    \/ \E w \in Workers : SendWelcome(w)
    \/ \E w \in Workers : LoopCheck(w)
    \/ \E w \in Workers : ReceiveRegister(w)
    \/ \E w \in Workers : ReceiveNothing(w)
    \/ \E w \in Workers : ParameterError(w)
    \/ \E w \in Workers : RegisterUser(w)
    \/ \E w \in Workers : RegisterInsert(w)
    \/ \E w \in Workers : Respond(w)
    \/ \E w \in Workers : Cleanup(w)
    \/ \E w \in Workers : CloseSocket(w)

SpecRegister == Init /\ [][NextRegister]_vars

(***************************************************************************)
(* The account store: the clients register, log in, set and read profile   *)
(* strings, change passwords and delete accounts.  The client sends        *)
(* "SET_STRING|" + userString and "REGISTER|" + userId + "|" + password    *)
(* with whatever the user typed, "|" and "," included.                     *)
(***************************************************************************)
StoreLines ==
    { Line("REGISTER", <<Str("a"), <<"p", ",", "q">>>>),
      Line("REGISTER", <<Str("b"), Str("p")>>),
      Line("LOGIN", <<Str("a"), Str("p")>>),
      Line("SET_STRING", <<Str("h")>>),
      Line("SET_STRING", <<Str("h"), Str("b")>>),
      Line("GET_STRING", <<>>),
      Line("CHANGE_PASSWORD", <<Str("p"), Str("q")>>),
      Line("DELETE", <<Str("a"), Str("p")>>) }

ReceiveStore(w) == ReceiveLine(w, StoreLines)

NextStore ==
    \/ StartServer
    \/ Tick
    \/ StopServer
    \/ AcceptLoopExit
    \/ \E w \in Workers : Accept(w)
    \/ \E w \in Workers : RegisterSession(w)
    \/ \E w \in Workers : SendWelcome(w)
    \/ \E w \in Workers : LoopCheck(w)
    \/ \E w \in Workers : ReceiveStore(w)
    \/ \E w \in Workers : ReceiveNothing(w)
    \/ \E w \in Workers : RegisterUser(w)
    \/ \E w \in Workers : RegisterInsert(w)
    \/ \E w \in Workers : LoginUser(w)
    \/ \E w \in Workers : DeleteUser(w)
    \/ \E w \in Workers : SetUserString(w)
    \/ \E w \in Workers : SetUserStringLocked(w)
    \/ \E w \in Workers : GetUserString(w)
    \/ \E w \in Workers : GetUserStringLocked(w)
    \/ \E w \in Workers : ChangePassword(w)
    \/ \E w \in Workers : ChangePasswordLocked(w)
    \/ \E w \in Workers : Respond(w)
    \/ \E w \in Workers : Cleanup(w)
    \/ \E w \in Workers : CloseSocket(w)

SpecStore == Init /\ [][NextStore]_vars

(***************************************************************************)
(* The codec alone: serialize(parse(m)) for every raw line m of at most    *)
(* MaxLen symbols over a command letter, a field letter and the delimiter  *)
(***************************************************************************)
CodecAlphabet == {"A", "x", "|"}

RawLines == UNION {[1..n -> CodecAlphabet] : n \in 0..MaxLen}

CodecInit ==
    /\ ServerInit
    /\ file = NoFile
    /\ cpc = "raw"
    /\ cmsg \in RawLines
    /\ cparsed = NoMessage
    /\ cresult = <<>>
    /\ LocksIdle
    /\ StopIdle
    /\ build = "posix"
    /\ SocketIdle

CodecParse ==
    /\ cpc = "raw"
    /\ cparsed' = parse(cmsg)
    /\ cpc' = "parsed"
    /\ UNCHANGED <<cmsg, cresult>>
    /\ UNCHANGED <<serverVars, lockVars, stopVars, socketVars>>

CodecSerialize ==
    /\ cpc = "parsed"
    /\ cresult' = serialize(cparsed)
    /\ cpc' = "serialized"
    /\ UNCHANGED <<cmsg, cparsed>>
    /\ UNCHANGED <<serverVars, lockVars, stopVars, socketVars>>

NextCodec == CodecParse \/ CodecSerialize

SpecCodec == CodecInit /\ [][NextCodec]_vars

(***************************************************************************)
(* Properties                                                              *)
(***************************************************************************)
\* the thread of w is inside its message loop: its session has been created
\* and registered, and its teardown has not begun
Serving(w) ==
    pc[w] \in {"loop", "receive", "dispatch", "locked", "register_insert",
               "force_lookup", "force_kick", "respond"}

InCall(w, cmd, n) ==
    /\ Command(w) = Str(cmd)
    /\ Len(Parameters(w)) >= n

Frames(o) == {o[i] : i \in 1..Len(o)}

\* C1: for every account id, at most one live session has loggedInUser equal
\* to that id, in every reachable state.
C1_OneSessionPerAccount ==
    \A w1, w2 \in Workers :
        (/\ w1 # w2
         /\ Serving(w1)
         /\ Serving(w2)
         /\ isLoggedIn(sess[w1]))
        => sess[w1].loggedInUser # sess[w2].loggedInUser

\* C2: two unbound sessions have LOGIN for the same existing account, with the
\* correct password, in flight together and no third session is bound to the
\* account: the call that runs first is answered SUCCESS and binds its
\* session, the call that runs second is answered CONFLICT and binds nothing.
C2_OneLoginSucceeds ==
    [][\A w, v \in Workers :
          (/\ w # v
           /\ pc[w] = "dispatch"
           /\ InCall(w, "LOGIN", 2)
           /\ pc'[w] = "respond"
           /\ checkCredentials(sess[w], users, Parameters(w)[1], Parameters(w)[2]) = <<>>
           /\ Serving(v)
           /\ req[v] = req[w]
           /\ \A e \in Workers \ {w, v} :
                Serving(e) => sess[e].loggedInUser # Parameters(w)[1])
          => /\ (pc[v] = "dispatch" /\ ~isLoggedIn(sess[v]))
                => /\ resp'[w] = OkLogin
                   /\ sess'[w].loggedInUser = Parameters(w)[1]
             /\ (pc[v] = "respond" /\ resp[v] = OkLogin
                   /\ sess[v].loggedInUser = Parameters(w)[1])
                => /\ Kind(resp'[w]) = "CONFLICT"
                   /\ ~isLoggedIn(sess'[w])]_vars

\* C3: when FORCE_LOGIN for account X with choice Y returns SUCCESS to session
\* b, every other live session a that was bound to X is unbound and inactive
\* afterwards, and KICKED is among the frames a's client has still to read.
C3_TakeoverEvicts ==
    [][\A b \in Workers :
          (/\ pc[b] \in {"dispatch", "force_kick"}
           /\ InCall(b, "FORCE_LOGIN", 3)
           /\ forceLoginChoice(Parameters(b)[3])
           /\ pc'[b] = "respond"
           /\ resp'[b] = OkForceLogin)
          => /\ sess'[b].loggedInUser = Parameters(b)[1]
             /\ \A a \in Workers \ {b} :
                  (Serving(a) /\ sess[a].loggedInUser = Parameters(b)[1])
                  => /\ sess'[a].loggedInUser = <<>>
                     /\ ~sess'[a].isActive
                     /\ Kicked \in Frames(out'[a])]_vars

\* the sessions being served carry pairwise different session ids
DistinctIds ==
    \A w1, w2 \in Workers :
        (w1 # w2 /\ Serving(w1) /\ Serving(w2)) => sess[w1].sessionId # sess[w2].sessionId

\* C4: a frame that arrives on the connection of a session whose active flag
\* is false (the session ids being distinct) is not handed to
\* processClientMessage.
C4_InactiveRefused ==
    [][\A w \in Workers :
          (pc[w] = "receive" /\ ~sess[w].isActive /\ DistinctIds)
          => pc'[w] # "dispatch"]_vars

\* C5: login by an unbound session with valid credentials for an account that
\* another live session is bound to returns CONFLICT with that session's id
\* and changes no session, account, table entry or file.
C5_ConflictIsPure ==
    [][\A w \in Workers :
          (/\ pc[w] = "dispatch"
           /\ InCall(w, "LOGIN", 2)
           /\ pc'[w] = "respond"
           /\ checkCredentials(sess[w], users, Parameters(w)[1], Parameters(w)[2]) = <<>>
           /\ \E e \in Workers \ {w} :
                Serving(e) /\ sess[e].loggedInUser = Parameters(w)[1])
          => /\ \E e \in Workers \ {w} :
                  /\ Serving(e)
                  /\ sess[e].loggedInUser = Parameters(w)[1]
                  /\ resp'[w] = Conflict(sess[e].sessionId)
             /\ UNCHANGED <<sess, sessions, users, file>>]_vars

\* C6: FORCE_LOGIN with a choice other than Y or y changes no session: the
\* caller stays unbound whether or not a session bound to the account exists.
C6_CancelIsPure ==
    [][\A w \in Workers :
          (/\ pc[w] = "dispatch"
           /\ InCall(w, "FORCE_LOGIN", 3)
           /\ ~forceLoginChoice(Parameters(w)[3])
           /\ pc'[w] # "dispatch")
          => /\ UNCHANGED <<sess, sessions, users, file>>
             /\ pc'[w] = "respond"
             /\ Kind(resp'[w]) = "ERROR"]_vars

\* C7: of two register calls with the same id (id and password non-empty) that
\* are in flight together, at most one is past the existence check at a time,
\* a call past the check finds the id still absent, at most one is answered
\* SUCCESS and then the other is answered AlreadyExists, and the record holds
\* the password of the call that succeeded.
C7_OneRegisterSucceeds ==
    \A w1, w2 \in Workers :
        (/\ w1 # w2
         /\ InCall(w1, "REGISTER", 2)
         /\ InCall(w2, "REGISTER", 2)
         /\ Parameters(w1)[1] = Parameters(w2)[1]
         /\ Parameters(w1)[1] # <<>>
         /\ Parameters(w1)[2] # <<>>
         /\ Parameters(w2)[2] # <<>>)
        => /\ ~(pc[w1] = "register_insert" /\ pc[w2] = "register_insert")
           /\ pc[w1] = "register_insert" => Parameters(w1)[1] \notin DOMAIN users
           /\ (pc[w1] = "respond" /\ pc[w2] = "respond")
              => Parameters(w1)[1] \in DOMAIN users
           /\ (pc[w1] = "respond" /\ pc[w2] = "respond" /\ resp[w1] = OkRegister)
              => /\ resp[w2] = ErrExists
                 /\ Parameters(w1)[1] \in DOMAIN users
                 /\ users[Parameters(w1)[1]].password = Parameters(w1)[2]

C7_Witness ==
    \E w1, w2 \in Workers :
        /\ w1 # w2
        /\ pc[w1] = "respond"
        /\ pc[w2] = "respond"
        /\ InCall(w1, "REGISTER", 2)
        /\ InCall(w2, "REGISTER", 2)
        /\ Parameters(w1)[1] = Parameters(w2)[1]
        /\ Parameters(w1)[2] # Parameters(w2)[2]
        /\ resp[w1] = OkRegister
        /\ resp[w2] = ErrExists

\* C8: register(id, password) succeeds exactly when id is absent from the
\* account table and id and password are non-empty; success inserts the
\* account with an empty profile string and rewrites the file from the table;
\* failure leaves table and file unchanged.
C8_RegisterContract ==
    [][\A w \in Workers :
          /\ (pc[w] = "dispatch" /\ InCall(w, "REGISTER", 2) /\ pc'[w] # "dispatch")
             => LET id == Parameters(w)[1]
                    pw == Parameters(w)[2]
                    ok == id \notin DOMAIN users /\ id # <<>> /\ pw # <<>>
                IN  /\ UNCHANGED <<users, file>>
                    /\ ok <=> pc'[w] = "register_insert"
                    /\ ~ok => (pc'[w] = "respond" /\ Kind(resp'[w]) = "ERROR")
          /\ (pc[w] = "register_insert" /\ pc'[w] # "register_insert")
             => LET id == Parameters(w)[1]
                    pw == Parameters(w)[2]
                IN  /\ id \notin DOMAIN users
                    /\ DOMAIN users' = DOMAIN users \cup {id}
                    /\ users'[id] = [userId |-> id, password |-> pw, userString |-> <<>>]
                    /\ \A k \in DOMAIN users : users'[k] = users[k]
                    /\ file' = [exists |-> TRUE, lines |-> FileLines(users')]
                    /\ pc'[w] = "respond"
                    /\ Kind(resp'[w]) = "SUCCESS"]_vars

C8_Witness ==
    \E w \in Workers :
        /\ pc[w] = "respond"
        /\ InCall(w, "REGISTER", 2)
        /\ resp[w] = OkRegister
        /\ users[Parameters(w)[1]].userString = <<>>
        /\ file.lines = FileLines(users)

\* C9: serialize(parse(m)) = m for every frame m with a non-empty command and
\* any number of fields, empty ones included.
C9_RoundTrip ==
    (cpc = "serialized" /\ cmsg # <<>> /\ Head(cmsg) # "|") => cresult = cmsg

\* C10: CHANGE_PASSWORD whose old password differs from the password of the
\* account the session is bound to returns ERROR and leaves the account table
\* and the file unchanged, so the old password still verifies.
C10_WrongOldPassword ==
    [][\A w \in Workers :
          (/\ pc[w] \in {"dispatch", "locked"}
           /\ InCall(w, "CHANGE_PASSWORD", 2)
           /\ pc'[w] # pc[w]
           /\ sess[w].loggedInUser \in DOMAIN users
           /\ users[sess[w].loggedInUser].password # Parameters(w)[1])
          => /\ UNCHANGED <<users, file>>
             /\ pc'[w] \in {"locked", "respond"}
             /\ pc[w] = "locked" => pc'[w] = "respond"
             /\ pc'[w] = "respond" => Kind(resp'[w]) = "ERROR"
             /\ checkCredentials(NoSession, users', sess[w].loggedInUser,
                                 users[sess[w].loggedInUser].password) = <<>>]_vars

C10_Witness ==
    \E w \in Workers :
        /\ pc[w] = "respond"
        /\ InCall(w, "CHANGE_PASSWORD", 2)
        /\ resp[w] = ErrOldPassword
        /\ sess[w].loggedInUser \in DOMAIN users
        /\ users[sess[w].loggedInUser].password # Parameters(w)[1]

\* the text the client put after "SET_STRING|": the value the user gave
Given(w) == Tail(JoinParameters(Parameters(w)))

\* C11: GET_STRING on a bound session answers SUCCESS followed by the profile
\* string of the account; a successful SET_STRING makes that string the value
\* the client gave; nothing but a successful SET_STRING on the account changes
\* it, and a new account starts with the empty string.
C11_GetReturnsLastSet ==
    [][/\ \A w \in Workers :
            /\ (pc[w] = "locked" /\ InCall(w, "GET_STRING", 0) /\ pc'[w] = "respond"
                  /\ sess[w].loggedInUser \in DOMAIN users)
               => resp'[w] = <<"SUCCESS", "|">> \o users[sess[w].loggedInUser].userString
            /\ (pc[w] = "locked" /\ InCall(w, "SET_STRING", 1) /\ pc'[w] = "respond"
                  /\ resp'[w] = OkSetString)
               => /\ sess[w].loggedInUser \in DOMAIN users'
                  /\ users'[sess[w].loggedInUser].userString = Given(w)
       /\ \A id \in DOMAIN users' :
            IF id \in DOMAIN users
            THEN users'[id].userString # users[id].userString
                 => \E w \in Workers :
                      /\ pc[w] = "locked"
                      /\ InCall(w, "SET_STRING", 1)
                      /\ sess[w].loggedInUser = id
                      /\ resp'[w] = OkSetString
            ELSE users'[id].userString = <<>>]_vars

\* C12: the account table loadFromFile() builds from the file is the account
\* table in memory, and the file has one line per account.
C12_ReloadIsTable ==
    /\ file.exists => /\ loadFromFile(EmptyUsers, file) = users
                      /\ Len(file.lines) = Cardinality(DOMAIN users)
    /\ ~file.exists => users = EmptyUsers


(***************************************************************************)
(* The two mutexes: each operation of a client thread as the sequence of   *)
(* lock operations, table and session accesses and socket calls it makes   *)
(***************************************************************************)

\* findUserSession: the scan of the sessions map under sessionsMutex
LockedFind == <<"lockS", "table", "field", "unlockS">>

\* handleClient: sessions[sessionId] = session under sessionsMutex
InsertSession == <<"lockS", "table", "unlockS">>

\* a cleanup that would log the account out while it holds sessionsMutex
EraseSessionLoggingOut ==
    <<"lockS", "table", "lockU", "users", "unlockU", "unlockS">>

\* handleClient: sessions.erase(sessionId) under sessionsMutex
EraseSession == <<"lockS", "table", "unlockS">>

\* "lockU"/"unlockU": SimpleLockGuard on usersMutex and its end of scope;
\* "lockS"/"unlockS": the same on sessionsMutex; "users": an access to the
\* users map; "table": an access to the sessions map; "field": a read or
\* write of a session's loggedInUser or isActive; "send", "recv": the socket
\* calls of sendMessage and receiveMessage
Script(name) ==
    CASE name = "register_session" -> InsertSession \o <<"send">>
      [] name = "receive"          -> <<"field", "recv">>
      [] name = "cleanup"          -> <<"field">> \o EraseSession
      [] name = "register"         -> <<"lockU", "users", "users", "unlockU", "send">>
      [] name = "login_refused"    -> <<"lockU", "field", "users", "unlockU", "send">>
      [] name = "login_conflict"   -> <<"lockU", "field", "users">> \o LockedFind
                                        \o <<"unlockU", "send">>
      [] name = "login"            -> <<"lockU", "field", "users">> \o LockedFind
                                        \o <<"field", "unlockU", "send">>
      [] name = "force_login"      -> <<"lockU", "field", "users">> \o LockedFind
                                        \o <<"lockS", "table", "unlockS">>
                                        \o <<"send", "field", "field">>
                                        \o <<"field", "unlockU", "send">>
      [] name = "logout"           -> <<"field", "field", "field", "send">>
      [] name = "delete"           -> <<"lockU", "users", "field", "field", "users",
                                        "unlockU", "send">>
      [] name = "not_logged_in"    -> <<"field", "field", "send">>
      [] name = "set_string"       -> <<"field", "field", "lockU", "field", "users",
                                        "users", "unlockU", "send">>
      [] name = "get_string"       -> <<"field", "field", "lockU", "field", "users",
                                        "unlockU", "send">>
      [] name = "change_password"  -> <<"field", "field", "lockU", "field", "users",
                                        "users", "unlockU", "send">>
      [] name = "quit"             -> <<"field", "send", "field">>
      [] name = "unknown"          -> <<"send">>
      [] OTHER                     -> <<>>

ScriptNames ==
    { "register_session", "receive", "cleanup", "register", "login_refused",
      "login_conflict", "login", "force_login", "logout", "delete",
      "not_logged_in", "set_string", "get_string", "change_password", "quit",
      "unknown" }

\* what thread w does next
Atom(w) ==
    IF lpos[w] < Len(Script(lop[w])) THEN Script(lop[w])[lpos[w] + 1] ELSE "end"

\* everything but the two mutexes and the threads' positions
lockFrame == <<mainPc, running, now, diskOk, users, file, sessions, sess,
               fdOwner, pc, req, resp, existingSessionId, existingSession,
               out, frames, codecVars, stopVars, socketVars>>

Advance(w) ==
    /\ lpos' = [lpos EXCEPT ![w] = @ + 1]
    /\ UNCHANGED <<lop, lockFrame>>

\* a thread enters one of its operations; every operation starts and ends
\* with no mutex held, so the order of a thread's operations does not matter
Begin(w) ==
    /\ lop[w] = "none"
    /\ \E name \in ScriptNames : lop' = [lop EXCEPT ![w] = name]
    /\ UNCHANGED <<lpos, usersMutex, sessionsMutex, lockFrame>>

LockUsers(w) ==
    /\ Atom(w) = "lockU"
    /\ UsersMutexFree
    /\ usersMutex' = w
    /\ Advance(w)
    /\ UNCHANGED sessionsMutex

UnlockUsers(w) ==
    /\ Atom(w) = "unlockU"
    /\ usersMutex' = 0
    /\ Advance(w)
    /\ UNCHANGED sessionsMutex

LockSessions(w) ==
    /\ Atom(w) = "lockS"
    /\ sessionsMutex = 0
    /\ sessionsMutex' = w
    /\ Advance(w)
    /\ UNCHANGED usersMutex

UnlockSessions(w) ==
    /\ Atom(w) = "unlockS"
    /\ sessionsMutex' = 0
    /\ Advance(w)
    /\ UNCHANGED usersMutex

Access(w) ==
    /\ Atom(w) \in {"users", "table", "field"}
    /\ Advance(w)
    /\ UNCHANGED <<usersMutex, sessionsMutex>>

SocketCall(w) ==
    /\ Atom(w) \in {"send", "recv"}
    /\ Advance(w)
    /\ UNCHANGED <<usersMutex, sessionsMutex>>

End(w) ==
    /\ lop[w] # "none"
    /\ Atom(w) = "end"
    /\ lop' = [lop EXCEPT ![w] = "none"]
    /\ lpos' = [lpos EXCEPT ![w] = 0]
    /\ UNCHANGED <<usersMutex, sessionsMutex, lockFrame>>

NextLocks ==
    \/ \E w \in Workers : Begin(w)
    \/ \E w \in Workers : LockUsers(w)
    \/ \E w \in Workers : UnlockUsers(w)
    \/ \E w \in Workers : LockSessions(w)
    \/ \E w \in Workers : UnlockSessions(w)
    \/ \E w \in Workers : Access(w)
    \/ \E w \in Workers : SocketCall(w)
    \/ \E w \in Workers : End(w)

SpecLocks == Init /\ [][NextLocks]_vars

\* the thread that holds the mutex w is blocked on (0: w is not blocked)
BlockedOn(w) ==
    CASE Atom(w) = "lockU" -> usersMutex
      [] Atom(w) = "lockS" -> sessionsMutex
      [] OTHER             -> 0

\* a set of threads each blocked on a mutex held by a thread of the set
Deadlocked ==
    \E S \in SUBSET Workers :
        /\ S # {}
        /\ \A w \in S : BlockedOn(w) \in S

\* C13: usersMutex is never acquired, nor waited for, by a thread holding
\* sessionsMutex, so a thread holding both took usersMutex first, and no set
\* of threads is deadlocked on the two mutexes.
C13_LockOrder ==
    /\ [](\A w \in Workers : sessionsMutex = w => Atom(w) # "lockU")
    /\ [][\A w \in Workers :
            (usersMutex' = w /\ usersMutex # w) => sessionsMutex # w]_vars
    /\ []~Deadlocked

C13_Witness ==
    \E w, v \in Workers :
        /\ usersMutex = w
        /\ sessionsMutex = w
        /\ v # w
        /\ BlockedOn(v) = w

\* C14: a thread about to call send or recv holds neither mutex.
C14_NoLockAcrossSocketCall ==
    \A w \in Workers :
        Atom(w) \in {"send", "recv"} => usersMutex # w /\ sessionsMutex # w

\* C15: a thread about to access the users map holds usersMutex; a thread
\* about to access the sessions map or a session's loggedInUser or isActive
\* holds sessionsMutex.
C15_AccessUnderLock ==
    \A w \in Workers :
        /\ Atom(w) = "users" => usersMutex = w
        /\ Atom(w) \in {"table", "field"} => sessionsMutex = w

(***************************************************************************)
(* Session lifetime                                                        *)
(***************************************************************************)
\* the session object of thread w exists: created in handleClient, the thread
\* has not returned yet
Live(w) == pc[w] \notin {"idle", "done"}

\* the keys under which the sessions map holds the session of thread w
EntriesOf(table, w) == {k \in DOMAIN table : table[k] = w}

\* the step by which the thread of w leaves its message loop or goes on with
\* its teardown
Teardown(w) ==
    /\ pc[w] \in {"loop", "receive", "cleanup", "close"}
    /\ pc'[w] \in {"cleanup", "close", "done"}
    /\ pc'[w] # pc[w]

\* C16: whatever ends the message loop, the thread goes to its cleanup; the
\* cleanup step erases the entry of the thread's own session, that entry
\* being in the sessions map until then; after it the map holds no entry for
\* the session, and a thread that has returned has closed its socket.
C16_OwnSessionRemovedOnce ==
    /\ [][\A w \in Workers :
            /\ (pc[w] \in {"loop", "receive"} /\ pc'[w] \notin {"loop", "receive", "dispatch"})
               => pc'[w] = "cleanup"
            /\ (pc[w] = "cleanup" /\ pc'[w] # "cleanup")
               => /\ pc'[w] = "close"
                  /\ EntriesOf(sessions, w) = {sess[w].sessionId}
                  /\ EntriesOf(sessions', w) = {}
            /\ (pc[w] = "close" /\ pc'[w] # "close")
               => /\ pc'[w] = "done"
                  /\ \A fd \in Fds : fdOwner'[fd] # w]_vars
    /\ [](\A w \in Workers :
            /\ pc[w] \in {"close", "done"} => EntriesOf(sessions, w) = {}
            /\ pc[w] = "done" => \A fd \in Fds : fdOwner[fd] # w)

\* C17: sessions that exist at the same time have different ids, and the
\* insert into the sessions map never finds its key present.
C17_UniqueSessionIds ==
    /\ [](\A w1, w2 \in Workers :
            (w1 # w2 /\ Live(w1) /\ Live(w2)) => sess[w1].sessionId # sess[w2].sessionId)
    /\ [][\A w \in Workers :
            (pc[w] = "register" /\ pc'[w] = "welcome")
            => sess[w].sessionId \notin DOMAIN sessions]_vars

\* C18: a step by which one thread leaves its loop after a failed receive or
\* tears its connection down leaves every other live session with its
\* sessions map entry, its loggedInUser and its isActive flag.
C18_TeardownIsLocal ==
    [][\A w \in Workers :
          Teardown(w)
          => \A v \in Workers \ {w} :
                Live(v) => /\ sess'[v] = sess[v]
                           /\ EntriesOf(sessions', v) = EntriesOf(sessions, v)]_vars

\* C20: the QUIT step writes GOODBYE, once, to the caller's connection and
\* marks the session inactive; a thread whose session is inactive leaves the
\* loop without receiving; its cleanup erases the entry of its session from
\* the sessions map and its socket is closed when it returns.
C20_QuitEndsConnection ==
    [][\A w \in Workers :
          /\ (Dispatching(w, "QUIT", 0) /\ pc'[w] # pc[w])
             => /\ out'[w] = Append(out[w], Goodbye)
                /\ \A v \in Workers \ {w} : out'[v] = out[v]
                /\ ~sess'[w].isActive
                /\ pc'[w] = "loop"
          /\ (pc[w] = "loop" /\ ~sess[w].isActive /\ pc'[w] # pc[w])
             => pc'[w] = "cleanup"
          /\ (pc[w] \in {"cleanup", "close"} /\ ~sess[w].isActive /\ pc'[w] # pc[w])
             => /\ out'[w] \in {out[w], <<>>}
                /\ pc[w] = "cleanup"
                   => /\ EntriesOf(sessions, w) = {sess[w].sessionId}
                      /\ EntriesOf(sessions', w) = {}
                /\ pc[w] = "close" => \A fd \in Fds : fdOwner'[fd] # w]_vars

\* the frame thread w is processing is one the server answers with an error:
\* unknown command, too few parameters, unknown account, password that does
\* not match, or a command that needs a login on a session without one
ErrorCase(w) ==
    \/ /\ pc[w] = "dispatch"
       /\ \/ Command(w) \notin KnownCommands
          \/ Len(Parameters(w)) < Required(Command(w))
          \/ /\ Command(w) \in {Str("LOGIN"), Str("FORCE_LOGIN"), Str("DELETE")}
             /\ Len(Parameters(w)) >= Required(Command(w))
             /\ \/ Parameters(w)[1] \notin DOMAIN users
                \/ users[Parameters(w)[1]].password # Parameters(w)[2]
          \/ /\ Command(w) \in {Str("LOGOUT"), Str("SET_STRING"), Str("GET_STRING"),
                                Str("CHANGE_PASSWORD")}
             /\ Len(Parameters(w)) >= Required(Command(w))
             /\ ~isLoggedIn(sess[w])
    \/ /\ pc[w] = "locked"
       /\ \/ sess[w].loggedInUser \notin DOMAIN users
          \/ /\ Command(w) = Str("CHANGE_PASSWORD")
             /\ users[sess[w].loggedInUser].password # Parameters(w)[1]

\* C19: processing a frame of an error case produces an ERROR response and
\* changes no account, file, session or sessions map entry and sends nothing;
\* sending an ERROR response writes that one frame to the caller's connection
\* only and returns the thread to its message loop with its socket open and
\* the accounts, sessions and sessions map as they were.
C19_ErrorsArePure ==
    [][\A w \in Workers :
          /\ (ErrorCase(w) /\ pc'[w] # pc[w])
             => /\ pc'[w] = "respond"
                /\ Kind(resp'[w]) = "ERROR"
                /\ UNCHANGED <<users, file, sess, sessions, fdOwner, out>>
          /\ (pc[w] = "respond" /\ Kind(resp[w]) = "ERROR" /\ pc'[w] # pc[w])
             => /\ pc'[w] = "loop"
                /\ out'[w] = Append(out[w], resp[w])
                /\ \A v \in Workers \ {w} : out'[v] = out[v]
                /\ UNCHANGED <<users, file, sess, sessions, fdOwner>>]_vars

C19_Witness ==
    \E w \in Workers :
        /\ pc[w] = "loop"
        /\ sess[w].isActive
        /\ EntriesOf(sessions, w) = {sess[w].sessionId}
        /\ out[w] = <<ErrBadPassword>>

\* C21: DELETE answers SUCCESS exactly when the account exists and the
\* password matches, whether or not the caller is logged in; then the record,
\* and no other, is gone from the account table and from the file, and the
\* caller's binding is cleared if it was to that account, no other session
\* being touched; otherwise the answer is ERROR and the account table, the
\* file and every session are unchanged.
C21_DeleteContract ==
    [][\A w \in Workers :
          (Dispatching(w, "DELETE", 2) /\ pc'[w] # pc[w])
          => LET id == Parameters(w)[1]
                 ok == id \in DOMAIN users /\ users[id].password = Parameters(w)[2]
             IN  /\ pc'[w] = "respond"
                 /\ ok => /\ resp'[w] = OkDelete
                          /\ DOMAIN users' = DOMAIN users \ {id}
                          /\ \A k \in DOMAIN users' : users'[k] = users[k]
                          /\ file'.exists
                          /\ loadFromFile(EmptyUsers, file') = users'
                          /\ sess'[w] = [sess[w] EXCEPT !.loggedInUser =
                                            IF @ = id THEN <<>> ELSE @]
                          /\ \A v \in Workers \ {w} : sess'[v] = sess[v]
                          /\ sessions' = sessions
                 /\ ~ok => /\ Kind(resp'[w]) = "ERROR"
                           /\ UNCHANGED <<users, file, sess, sessions>>]_vars

C21_Witness ==
    \E w \in Workers :
        /\ pc[w] = "respond"
        /\ InCall(w, "DELETE", 2)
        /\ resp[w] = OkDelete
        /\ Parameters(w)[1] \notin DOMAIN users
        /\ file.exists
        /\ ~isLoggedIn(sess[w])

(***************************************************************************)
(* The account store on a disk that can refuse the file                    *)
(***************************************************************************)
\* from now on std::ofstream cannot open the data file, or can again
DiskFault ==
    /\ diskOk' = ~diskOk
    /\ UNCHANGED <<mainPc, running, now, users, file, usersMutex, sessions, sess,
                   fdOwner, pc, req, resp, existingSessionId, existingSession,
                   out, frames>>
    /\ UNCHANGED <<codecVars, lockVars, stopVars, socketVars>>

NextDisk == NextStore \/ DiskFault

SpecDisk == Init /\ [][NextDisk]_vars

\* C22: while the data file cannot be written, the step that completes a
\* REGISTER, SET_STRING, CHANGE_PASSWORD or DELETE whose checks pass changes
\* the account table as asked, answers SUCCESS, leaves the file as it was,
\* the server running and every session active and registered as before.
C22_WriteFailureIsSilent ==
    [][\A w \in Workers :
          LET bound == sess[w].loggedInUser
              p == Parameters(w)
              registers == pc[w] = "register_insert"
              sets == /\ pc[w] = "locked"
                      /\ Command(w) = Str("SET_STRING")
                      /\ bound \in DOMAIN users
              changes == /\ pc[w] = "locked"
                         /\ Command(w) = Str("CHANGE_PASSWORD")
                         /\ bound \in DOMAIN users
                         /\ users[bound].password = p[1]
              deletes == /\ Dispatching(w, "DELETE", 2)
                         /\ p[1] \in DOMAIN users
                         /\ users[p[1]].password = p[2]
          IN  (~diskOk /\ pc'[w] # pc[w] /\ (registers \/ sets \/ changes \/ deletes))
              => /\ pc'[w] = "respond"
                 /\ Kind(resp'[w]) = "SUCCESS"
                 /\ registers => p[1] \in DOMAIN users' /\ users'[p[1]] = User(p[1], p[2])
                 /\ sets => users'[bound].userString = p[1]
                 /\ changes => users'[bound].password = p[2]
                 /\ deletes => p[1] \notin DOMAIN users'
                 /\ file' = file
                 /\ running' = running
                 /\ sessions' = sessions
                 /\ \A v \in Workers : sess'[v].isActive = sess[v].isActive
                 /\ \A v \in Workers \ {w} : pc'[v] = pc[v]]_vars

C22_Witness ==
    \E w \in Workers :
        /\ pc[w] = "respond"
        /\ InCall(w, "REGISTER", 2)
        /\ resp[w] = OkRegister
        /\ ~diskOk
        /\ ~file.exists
        /\ Parameters(w)[1] \in DOMAIN users
        /\ running

(***************************************************************************)
(* stopServer                                                              *)
(***************************************************************************)
InitStop == ServerInit /\ CodecIdle /\ LocksIdle /\ StopIdle /\ SocketIdle

\* pthread_create / CreateThread succeeded: clientThreads.push_back(thread)
Spawn(w) ==
    /\ mainPc = "accept"
    /\ running
    /\ thread[w] = "none"
    /\ \A v \in Workers : v < w => thread[v] # "none"
    /\ thread' = [thread EXCEPT ![w] = "running"]
    /\ UNCHANGED <<serverVars, codecVars, lockVars, build, stopPc, joined, socketVars>>

\* handleClient returns
ThreadExits(w) ==
    /\ thread[w] = "running"
    /\ thread' = [thread EXCEPT ![w] = "exited"]
    /\ UNCHANGED <<serverVars, codecVars, lockVars, build, stopPc, joined, socketVars>>

\* the thread enters a send() that never returns: its peer has stopped
\* reading and the socket has no send timeout
ThreadBlocks(w) ==
    /\ thread[w] = "running"
    /\ thread' = [thread EXCEPT ![w] = "blocked"]
    /\ UNCHANGED <<serverVars, codecVars, lockVars, build, stopPc, joined, socketVars>>

\* if (running.load()) running.store(false)
StopFlag ==
    /\ stopPc = "idle"
    /\ running
    /\ running' = FALSE
    /\ stopPc' = "closing"
    /\ UNCHANGED <<mainPc, now, diskOk, users, file, usersMutex, sessions, sess,
                   fdOwner, pc, req, resp, existingSessionId, existingSession,
                   out, frames>>
    /\ UNCHANGED <<codecVars, lockVars, build, joined, thread, socketVars>>

\* closesocket(serverSocket): accept fails and the accept loop reads running
CloseListener ==
    /\ stopPc = "closing"
    /\ stopPc' = "joining"
    /\ mainPc' = "exit"
    /\ UNCHANGED <<running, now, diskOk, users, file, usersMutex, sessions, sess,
                   fdOwner, pc, req, resp, existingSessionId, existingSession,
                   out, frames>>
    /\ UNCHANGED <<codecVars, lockVars, build, joined, thread, socketVars>>

\* number of entries of clientThreads
Spawned == Cardinality({w \in Workers : thread[w] # "none"})

\* the wait for one entry of clientThreads returns: pthread_join(thread, NULL)
\* once the thread has exited, WaitForSingleObject(thread, 5000) then or
\* after five seconds
WaitReturns(w) == thread[w] = "exited" \/ build = "win32"

Join ==
    /\ stopPc = "joining"
    /\ joined < Spawned
    /\ WaitReturns(joined + 1)
    /\ joined' = joined + 1
    /\ UNCHANGED <<serverVars, codecVars, lockVars, build, stopPc, thread, socketVars>>

\* clientThreads.clear(); stopServer returns
StopReturn ==
    /\ stopPc = "joining"
    /\ joined = Spawned
    /\ stopPc' = "returned"
    /\ UNCHANGED <<serverVars, codecVars, lockVars, build, joined, thread, socketVars>>

NextStop ==
    \/ StartServer
    \/ \E w \in Workers : Spawn(w)
    \/ \E w \in Workers : ThreadExits(w)
    \/ \E w \in Workers : ThreadBlocks(w)
    \/ StopFlag
    \/ CloseListener
    \/ Join
    \/ StopReturn

SpecStop == InitStop /\ [][NextStop]_vars

\* C23: stopServer clears the running flag, then closes the listening
\* socket, then waits for the threads; it kills no thread; and while it waits
\* for a thread that has not exited and never will, its wait still returns.
C23_StopTerminates ==
    /\ [][/\ (stopPc = "idle" /\ stopPc' # "idle") => (~running' /\ stopPc' = "closing")
          /\ (stopPc = "closing" /\ stopPc' # "closing") => stopPc' = "joining"
          /\ (stopPc = "joining" /\ stopPc' # "joining")
             => (stopPc' = "returned" /\ joined = Spawned)
          /\ (stopPc' # stopPc \/ joined' # joined) => thread' = thread]_vars
    /\ [](\A w \in Workers :
            (stopPc = "joining" /\ joined + 1 = w /\ thread[w] = "blocked")
            => WaitReturns(w))

(***************************************************************************)
(* receiveMessage, byte by byte                                            *)
(***************************************************************************)
MaxMessageLength == 4096    \* if (message.length() > 4096) return ""
BufferSize == 1024          \* char buffer[1024]

\* lengths, before the newline, of the message the peer sends
InboundLengths ==
    { 0, 1, MaxMessageLength - 1, MaxMessageLength, MaxMessageLength + 1,
      MaxMessageLength + BufferSize - 2, MaxMessageLength + BufferSize - 1,
      MaxMessageLength + BufferSize }

\* numbers of bytes one recv(socket, buffer, sizeof(buffer) - 1, 0) can return
Chunks == { 1, BufferSize \div 2, BufferSize - 1 }

\* receiveMessage is entered; the peer sends rleft bytes and a newline
ReceiveStart ==
    /\ rpc = "idle"
    /\ \E n \in InboundLengths : rleft' = n
    /\ rlen' = 0
    /\ rpc' = "recv"
    /\ UNCHANGED <<serverVars, codecVars, lockVars, stopVars, streamVars, spc, fullMessage,
                   totalSent, wire>>

\* one turn of the loop: recv returns up to k bytes, they are appended, the
\* newline is looked for, then the length is tested
Recv ==
    /\ rpc = "recv"
    /\ \E k \in Chunks :
         IF k > rleft
         THEN /\ rlen' = rlen + rleft
              /\ rleft' = 0
              /\ rpc' = IF rlen' = 0 THEN "empty" ELSE "message"
         ELSE /\ rlen' = rlen + k
              /\ rleft' = rleft - k
              /\ rpc' = IF rlen' > MaxMessageLength THEN "empty" ELSE "recv"
    /\ UNCHANGED <<serverVars, codecVars, lockVars, stopVars, streamVars, spc, fullMessage,
                   totalSent, wire>>

\* received <= 0: the peer has closed or nothing came for 30 seconds
RecvFails ==
    /\ rpc = "recv"
    /\ rpc' = "empty"
    /\ UNCHANGED <<serverVars, codecVars, lockVars, stopVars, streamVars, rlen, rleft, spc,
                   fullMessage, totalSent, wire>>

NextReceive == ReceiveStart \/ Recv \/ RecvFails

SpecReceive == Init /\ [][NextReceive]_vars

\* C24: a message receiveMessage returns has at most 4096 bytes.
C24_CeilingHolds == rpc = "message" => rlen <= MaxMessageLength

(***************************************************************************)
(* sendMessage, write by write                                             *)
(***************************************************************************)
\* sendMessage is entered: fullMessage = message + "\n", totalSent = 0
SendStart ==
    /\ spc = "idle"
    /\ \E m \in RawLines : fullMessage' = m \o <<"\n">>
    /\ totalSent' = 0
    /\ wire' = <<>>
    /\ spc' = "send"
    /\ UNCHANGED <<serverVars, codecVars, lockVars, stopVars, streamVars, rpc, rlen, rleft>>

\* send(socket, fullMessage.c_str() + totalSent, messageLength - totalSent, 0)
\* writes k of the remaining bytes; the loop ends when none remains
Send ==
    /\ spc = "send"
    /\ \E k \in 1..(Len(fullMessage) - totalSent) :
         /\ wire' = wire \o SubSeq(fullMessage, totalSent + 1, totalSent + k)
         /\ totalSent' = totalSent + k
    /\ spc' = IF totalSent' < Len(fullMessage) THEN "send" ELSE "true"
    /\ UNCHANGED <<serverVars, codecVars, lockVars, stopVars, streamVars, rpc, rlen, rleft,
                   fullMessage>>

\* send returns SOCKET_ERROR: return false
SendError ==
    /\ spc = "send"
    /\ spc' = "false"
    /\ UNCHANGED <<serverVars, codecVars, lockVars, stopVars, streamVars, rpc, rlen, rleft,
                   fullMessage, totalSent, wire>>

\* the peer has reset the connection: on POSIX, send (flags 0, SIGPIPE left at
\* its default action) ends the process instead of returning
SendSigpipe ==
    /\ spc = "send"
    /\ build = "posix"
    /\ spc' = "killed"
    /\ UNCHANGED <<serverVars, codecVars, lockVars, stopVars, streamVars, rpc, rlen, rleft,
                   fullMessage, totalSent, wire>>

NextSend == SendStart \/ Send \/ SendError \/ SendSigpipe

SpecSend == InitStop /\ [][NextSend]_vars

\* C25: sendMessage returns true only when payload and newline are all on the
\* wire; every write continues at the first unsent byte; and a write on which
\* the connection reports an error makes it return false at once.
C25_SendContract ==
    /\ [](spc = "true" => wire = fullMessage)
    /\ [][spc = "send" =>
            \/ /\ spc' = "false"
               /\ wire' = wire
            \/ /\ \E k \in 1..(Len(fullMessage) - totalSent) :
                    wire' = SubSeq(fullMessage, 1, totalSent + k)
               /\ spc' = IF wire' = fullMessage THEN "true" ELSE "send"]_vars

(***************************************************************************)
(* LOGIN and FORCE_LOGIN                                                   *)
(***************************************************************************)
\* C26: loginUser answers "already logged in" whenever the calling session is
\* bound, whatever the credentials; otherwise "no such user" for an unknown
\* id, otherwise "wrong password" for a password that does not match; and
\* CONFLICT or SUCCESS only for an unbound caller whose credentials verify.
C26_LoginCheckOrder ==
    [][\A w \in Workers :
          (Dispatching(w, "LOGIN", 2) /\ pc'[w] # pc[w])
          => LET id == Parameters(w)[1]
                 bound == sess[w].loggedInUser # <<>>
                 known == id \in DOMAIN users
                 match == known /\ users[id].password = Parameters(w)[2]
             IN  /\ pc'[w] = "respond"
                 /\ bound => resp'[w] = ErrAlreadyLoggedIn
                 /\ (~bound /\ ~known) => resp'[w] = ErrNoSuchUser
                 /\ (~bound /\ known /\ ~match) => resp'[w] = ErrBadPassword
                 /\ (~bound /\ match) <=> Kind(resp'[w]) \in {"CONFLICT", "SUCCESS"}]_vars

C26_Witness ==
    \E w \in Workers :
        /\ pc[w] = "respond"
        /\ InCall(w, "LOGIN", 2)
        /\ resp[w] = ErrAlreadyLoggedIn
        /\ sess[w].loggedInUser # <<>>
        /\ \/ Parameters(w)[1] \notin DOMAIN users
           \/ users[Parameters(w)[1]].password # Parameters(w)[2]

\* C27: nothing is written to a connection before its WELCOME; the WELCOME
\* carries the id under which the connection's own session is then registered
\* in the sessions map; and no later frame on the connection is a WELCOME.
C27_WelcomeFirstAndOnce ==
    /\ [](\A w \in Workers : pc[w] \in {"register", "welcome"} => out[w] = <<>>)
    /\ [][\A w \in Workers :
            /\ (pc[w] = "welcome" /\ pc'[w] # pc[w])
               => \E id \in DOMAIN sessions :
                     /\ sessions[id] = w
                     /\ out'[w] = <<Welcome(id)>>
            /\ (pc[w] # "welcome" /\ Len(out'[w]) > Len(out[w]))
               => \A i \in (Len(out[w]) + 1)..Len(out'[w]) :
                     Kind(out'[w][i]) # "WELCOME"]_vars

(***************************************************************************)
(* loadFromFile on any file                                                *)
(***************************************************************************)
\* the data file found at start: missing, or up to two lines, well formed or
\* not, with repeated and with empty ids
LoadFiles ==
    LET a == User(Str("a"), Str("p"))
        L == { <<>>,
               UserSerialize(a),
               UserSerialize([a EXCEPT !.password = Str("q"), !.userString = Str("h")]),
               UserSerialize(User(Str("b"), Str("p"))),
               UserSerialize(User(<<>>, Str("p"))),
               Str("a"),
               Str("a") \o <<",">>,
               UserSerialize(a) \o <<",">> \o Str("h") }
    IN  {NoFile} \cup
        { [exists |-> TRUE, lines |-> ls] :
            ls \in {<<>>} \cup {<<x>> : x \in L} \cup {<<x, y>> : x, y \in L} }

\* the constructor has reached its call of loadFromFile(): users is empty
InitLoad ==
    /\ mainPc = "construct"
    /\ running = FALSE
    /\ now = 0
    /\ diskOk = TRUE
    /\ file \in LoadFiles
    /\ users = EmptyUsers
    /\ usersMutex = 0
    /\ sessions = [k \in {} |-> 0]
    /\ sess = [w \in Workers |-> NoSession]
    /\ fdOwner = [f \in Fds |-> 0]
    /\ pc = [w \in Workers |-> "idle"]
    /\ req = [w \in Workers |-> NoMessage]
    /\ resp = [w \in Workers |-> <<>>]
    /\ existingSessionId = [w \in Workers |-> <<>>]
    /\ existingSession = [w \in Workers |-> 0]
    /\ out = [w \in Workers |-> <<>>]
    /\ frames = 0
    /\ CodecIdle /\ LocksIdle /\ StopIdle /\ SocketIdle
    /\ build = "posix"

\* loadFromFile(), the first time or again
LoadFromFile ==
    /\ mainPc \in {"construct", "loaded"}
    /\ users' = loadFromFile(users, file)
    /\ mainPc' = "loaded"
    /\ UNCHANGED <<running, now, diskOk, file, usersMutex, sessions, sess, fdOwner,
                   pc, req, resp, existingSessionId, existingSession, out, frames>>
    /\ UNCHANGED <<codecVars, lockVars, stopVars, socketVars>>

SpecLoad == InitLoad /\ [][LoadFromFile]_vars

\* C28: loadFromFile() on a missing file leaves the account table empty, the
\* file missing and the constructor going on; and loading the same file again
\* leaves the account table as the first load made it.
C28_LoadTolerantIdempotent ==
    /\ []((mainPc = "loaded" /\ ~file.exists) => users = EmptyUsers)
    /\ [][/\ mainPc' = "loaded"
          /\ file' = file
          /\ mainPc = "loaded" => users' = users]_vars

C28_Witness ==
    /\ mainPc = "loaded"
    /\ file.exists
    /\ Len(file.lines) = Cardinality(DOMAIN users) + 1
    /\ \E id \in DOMAIN users : users[id].userString # <<>>

(***************************************************************************)
(* FORCE_LOGIN                                                             *)
(***************************************************************************)
\* C29: FORCE_LOGIN evicts only for a session whose preceding LOGIN for that
\* account was answered CONFLICT.  The server has then received three frames
\* at least when it evicts: the login that bound the session it evicts, the
\* caller's LOGIN answered CONFLICT, and the caller's FORCE_LOGIN.
C29_TakeoverNeedsConflict ==
    \A w \in Workers :
        (pc[w] = "force_kick" /\ existingSession[w] # 0 /\ InCall(w, "FORCE_LOGIN", 3))
        => frames >= 3

\* C30: handleLoginConflict called by a bound session, for an unknown account
\* or with a password that does not match answers ERROR, whatever the choice,
\* and sends nothing, leaves every session and the sessions map as they were
\* and goes on to send that answer.
C30_ForceLoginReverifies ==
    [][\A w \in Workers :
          (Dispatching(w, "FORCE_LOGIN", 3) /\ pc'[w] # pc[w])
          => LET id == Parameters(w)[1]
                 bound == sess[w].loggedInUser # <<>>
                 known == id \in DOMAIN users
                 match == known /\ users[id].password = Parameters(w)[2]
             IN  (bound \/ ~match)
                 => /\ pc'[w] = "respond"
                    /\ Kind(resp'[w]) = "ERROR"
                    /\ resp'[w] # ErrCancelled
                    /\ UNCHANGED <<out, sess, sessions, users, usersMutex>>]_vars

C30_Witness ==
    \E w \in Workers :
        /\ pc[w] = "respond"
        /\ InCall(w, "FORCE_LOGIN", 3)
        /\ Parameters(w)[3] = Str("Y")
        /\ resp[w] = ErrBadPassword
        /\ \E v \in Workers \ {w} :
              /\ sess[v].loggedInUser = Parameters(w)[1]
              /\ sess[v].isActive
              /\ out[v] = <<>>

(***************************************************************************)
(* A takeover among three connections: the clients send LOGIN and          *)
(* FORCE_LOGIN only and no connection ends                                 *)
(***************************************************************************)
Crowd == 1..(MaxWorkers + 1)

TakeoverLines ==
    { Line("LOGIN", <<Str("a"), Str("p")>>),
      Line("FORCE_LOGIN", <<Str("a"), Str("p"), Str("Y")>>) }

InitTakeover ==
    /\ mainPc = "start"
    /\ running = FALSE
    /\ now = 0
    /\ diskOk = TRUE
    /\ file \in InitialFiles
    /\ users = loadFromFile(EmptyUsers, file)
    /\ usersMutex = 0
    /\ sessions = [k \in {} |-> 0]
    /\ sess = [w \in Crowd |-> NoSession]
    /\ fdOwner = [f \in Crowd |-> 0]
    /\ pc = [w \in Crowd |-> "idle"]
    /\ req = [w \in Crowd |-> NoMessage]
    /\ resp = [w \in Crowd |-> <<>>]
    /\ existingSessionId = [w \in Crowd |-> <<>>]
    /\ existingSession = [w \in Crowd |-> 0]
    /\ out = [w \in Crowd |-> <<>>]
    /\ frames = 0
    /\ CodecIdle /\ LocksIdle /\ StopIdle /\ SocketIdle
    /\ build = "posix"

\* accept() returns the lowest free descriptor; the new thread creates its session
AcceptCrowd(w) ==
    /\ mainPc = "accept"
    /\ running
    /\ pc[w] = "idle"
    /\ \A v \in Crowd : v < w => pc[v] # "idle"
    /\ \E fd \in Crowd :
        /\ fdOwner[fd] = 0
        /\ \A g \in Crowd : g < fd => fdOwner[g] # 0
        /\ fdOwner' = [fdOwner EXCEPT ![fd] = w]
        /\ sess' = [sess EXCEPT ![w] = ClientSession(fd, generateSessionId(now))]
    /\ pc' = [pc EXCEPT ![w] = "register"]
    /\ UNCHANGED <<mainPc, running, now, diskOk, users, file, usersMutex, sessions,
                   req, resp, existingSessionId, existingSession, out, frames>>
    /\ UNCHANGED <<codecVars, lockVars, stopVars, socketVars>>

NextTakeover ==
    \/ StartServer
    \/ Tick
    \/ \E w \in Crowd : AcceptCrowd(w)
    \/ \E w \in Crowd : RegisterSession(w)
    \/ \E w \in Crowd : SendWelcome(w)
    \/ \E w \in Crowd : LoopCheck(w)
    \/ \E w \in Crowd : ReceiveLine(w, TakeoverLines)
    \/ \E w \in Crowd : LoginUser(w)
    \/ \E w \in Crowd : HandleLoginConflict(w)
    \/ \E w \in Crowd : ForceLookup(w)
    \/ \E w \in Crowd : ForceKick(w)
    \/ \E w \in Crowd : Respond(w)

SpecTakeover == InitTakeover /\ [][NextTakeover]_vars

\* C31: the step of handleLoginConflict that evicts binds the caller, clears
\* the binding and the active flag of the session that was bound to the
\* account, and changes nothing else: no other field of these two sessions,
\* no other session, no sessions map entry, no socket, no account, no file.
C31_TakeoverFrame ==
    [][\A w \in Crowd :
          (pc[w] = "force_kick" /\ pc'[w] # pc[w])
          => LET id == Parameters(w)[1]
             IN  /\ UNCHANGED <<users, file, sessions, fdOwner>>
                 /\ sess'[w] = [sess[w] EXCEPT !.loggedInUser = id]
                 /\ \A e \in Crowd \ {w} :
                       sess'[e] = IF sess[e].loggedInUser = id
                                  THEN [sess[e] EXCEPT !.loggedInUser = <<>>,
                                                       !.isActive = FALSE]
                                  ELSE sess[e]]_vars

(***************************************************************************)
(* Profile string and password                                             *)
(***************************************************************************)
\* C32: SET_STRING, GET_STRING and CHANGE_PASSWORD of a session without a
\* binding are answered ERROR and change no account, file or session; once
\* usersMutex is held they read and write the record of the account the
\* session is bound to at that moment and leave every other record, and the
\* set of accounts, as they were; a session that lost its binding meanwhile
\* is answered ERROR and nothing changes.
C32_OwnRecordOnly ==
    [][\A w \in Workers :
          /\ ( /\ pc[w] = "dispatch"
               /\ \/ InCall(w, "SET_STRING", 1)
                  \/ InCall(w, "GET_STRING", 0)
                  \/ InCall(w, "CHANGE_PASSWORD", 2)
               /\ sess[w].loggedInUser = <<>>
               /\ pc'[w] # pc[w] )
             => /\ pc'[w] = "respond"
                /\ resp'[w] = ErrLoginFirst
                /\ UNCHANGED <<users, file, sess, sessions>>
          /\ (pc[w] = "locked" /\ pc'[w] # pc[w])
             => LET b == sess[w].loggedInUser
                IN  /\ pc'[w] = "respond"
                    /\ DOMAIN users' = DOMAIN users
                    /\ \A id \in DOMAIN users : id # b => users'[id] = users[id]
                    /\ b \notin DOMAIN users
                       => /\ Kind(resp'[w]) = "ERROR"
                          /\ UNCHANGED <<users, file>>
                    /\ (b \in DOMAIN users /\ InCall(w, "GET_STRING", 0))
                       => /\ resp'[w] = OkGetString(users[b].userString)
                          /\ UNCHANGED <<users, file>>
                    /\ UNCHANGED <<sess, sessions>>]_vars

C32_Witness ==
    \E w \in Workers :
        /\ pc[w] = "respond"
        /\ InCall(w, "SET_STRING", 1)
        /\ resp[w] = OkSetString
        /\ sess[w].loggedInUser = Str("a")
        /\ DOMAIN users = {Str("a"), Str("b")}
        /\ users[Str("a")].userString = Str("h")
        /\ users[Str("b")].userString = <<>>

(***************************************************************************)
(* Progress: the clients send LOGIN and FORCE_LOGIN frames for as long as  *)
(* they like; every thread that can take a step eventually takes one, and  *)
(* every receiveMessage returns                                            *)
(***************************************************************************)
\* receiveMessage returns a frame; the number of frames is not bounded
ReceiveUnbounded(w) ==
    /\ pc[w] = "receive"
    /\ \E line \in TakeoverLines :
        /\ req' = [req EXCEPT ![w] = parse(line)]
    /\ out' = [out EXCEPT ![w] = <<>>]
    /\ pc' = [pc EXCEPT ![w] = "dispatch"]
    /\ UNCHANGED <<mainPc, running, now, diskOk, users, file, usersMutex, sessions, sess,
                   fdOwner, resp, existingSessionId, existingSession, frames>>
    /\ UNCHANGED <<codecVars, lockVars, stopVars, socketVars>>

\* the steps of the thread of connection w
WorkerStep(w) ==
    \/ RegisterSession(w)
    \/ SendWelcome(w)
    \/ LoopCheck(w)
    \/ ReceiveUnbounded(w)
    \/ ReceiveNothing(w)
    \/ LoginUser(w)
    \/ HandleLoginConflict(w)
    \/ ForceLookup(w)
    \/ ForceKick(w)
    \/ Respond(w)
    \/ Cleanup(w)
    \/ CloseSocket(w)

NextLive ==
    \/ StartServer
    \/ Tick
    \/ StopServer
    \/ AcceptLoopExit
    \/ \E w \in Workers : Accept(w)
    \/ \E w \in Workers : WorkerStep(w)

\* the main thread and every connection thread are scheduled; a receive
\* that has not returned a frame returns "" (peer closed, or 30 s elapsed)
SpecLive ==
    /\ Init
    /\ [][NextLive]_vars
    /\ WF_vars(AcceptLoopExit)
    /\ \A w \in Workers : WF_vars(WorkerStep(w))

C35_EndedBindingLeavesNoTrace ==
    [][\A w \in Workers :
          /\ (Dispatching(w, "LOGOUT", 0) /\ pc'[w] # pc[w])
             => /\ pc'[w] = "respond"
                /\ UNCHANGED <<users, file, sessions>>
                /\ \A v \in Workers \ {w} : sess'[v] = sess[v]
                /\ IF sess[w].loggedInUser # <<>>
                   THEN /\ resp'[w] = OkLogout
                        /\ sess'[w] = [sess[w] EXCEPT !.loggedInUser = <<>>]
                   ELSE /\ Kind(resp'[w]) = "ERROR"
                        /\ sess'[w] = sess[w]
          /\ ( /\ Dispatching(w, "LOGIN", 2)
               /\ pc'[w] # pc[w]
               /\ Kind(resp'[w]) = "CONFLICT" )
             => \E v \in Workers \ {w} :
                   /\ Live(v)
                   /\ EntriesOf(sessions, v) # {}
                   /\ sess[v].loggedInUser = Parameters(w)[1]]_vars

C35_Witness ==
    \E w \in Workers :
        /\ pc[w] = "respond"
        /\ InCall(w, "LOGIN", 2)
        /\ resp[w] = OkLogin
        /\ \E v \in Workers \ {w} :
              /\ Serving(v)
              /\ out[v] = <<OkLogout>>
              /\ sess[v].loggedInUser = <<>>
              /\ EntriesOf(sessions, v) # {}

\* C36: the account a live session is bound to is an account of the account
\* table.
C36_BoundAccountExists ==
    \A w \in Workers :
        (Live(w) /\ sess[w].loggedInUser # <<>>) => sess[w].loggedInUser \in DOMAIN users

(***************************************************************************)
(* Requests and responses                                                  *)
(***************************************************************************)
\* C37: between the receive of a frame and the next receive the thread of a
\* connection writes one frame to that connection, the response, or GOODBYE
\* for QUIT; a frame written to a connection is its WELCOME, such a response
\* or GOODBYE, written by its own thread, or KICKED, written by another
\* thread during a forced login.
C37_OneResponsePerFrame ==
    [][\A v \in Workers :
          /\ \/ out'[v] = out[v]
             \/ out'[v] = <<>>
             \/ /\ Len(out'[v]) = Len(out[v]) + 1
                /\ SubSeq(out'[v], 1, Len(out[v])) = out[v]
                /\ LET f == out'[v][Len(out'[v])]
                   IN  \/ pc[v] = "welcome" /\ pc'[v] = "loop" /\ Kind(f) = "WELCOME"
                       \/ pc[v] = "respond" /\ pc'[v] = "loop" /\ f = resp[v]
                       \/ Dispatching(v, "QUIT", 0) /\ pc'[v] = "loop" /\ f = Goodbye
                       \/ /\ f = Kicked
                          /\ pc'[v] = pc[v]
                          /\ \E w \in Workers \ {v} : pc[w] = "force_kick" /\ pc'[w] # pc[w]
          /\ (pc[v] = "respond" /\ pc'[v] # pc[v])
             => /\ pc'[v] = "loop"
                /\ resp[v] # <<>>
                /\ out'[v] = Append(out[v], resp[v])
          /\ (pc[v] = "dispatch" /\ pc'[v] = "loop")
             => /\ Command(v) = Str("QUIT")
                /\ out'[v] = Append(out[v], Goodbye)
          /\ ( /\ pc[v] \in {"dispatch", "locked", "register_insert", "force_lookup",
                             "force_kick"}
               /\ pc'[v] # pc[v] )
             => /\ pc'[v] \in {"locked", "register_insert", "force_lookup", "force_kick",
                               "respond", "loop"}
                /\ pc'[v] \in {"locked", "register_insert", "force_lookup", "force_kick",
                               "respond"}
                   => out'[v] = out[v]
          /\ (pc'[v] = "receive" /\ pc[v] # "receive") => pc[v] = "loop"
          /\ (pc'[v] = "loop" /\ pc[v] # "loop")
             => pc[v] \in {"welcome", "respond", "dispatch"}]_vars

C37_Witness ==
    \E v \in Workers :
        /\ out[v] = <<OkLogin, Kicked>>
        /\ \E w \in Workers \ {v} : out[w] = <<OkForceLogin>> /\ pc[w] = "loop"

(***************************************************************************)
(* handleClient over the byte stream of its connection                     *)
(***************************************************************************)
\* the frames a client writes, each followed by "\n"; the last is the frame
\* that consists of the newline only
StreamFrames == { Line("NOP", <<>>), Line("QUIT", <<>>), <<>> }

\* message.find('\n'): the position of the first newline, counted from 1;
\* 0 stands for std::string::npos
findNewline(m) ==
    IF \E i \in 1..Len(m) : m[i] = "\n"
    THEN CHOOSE i \in 1..Len(m) : m[i] = "\n" /\ \A j \in 1..(i - 1) : m[j] # "\n"
    ELSE 0

\* the frames fs as they travel: each followed by its newline
RECURSIVE Framed(_)
Framed(fs) == IF fs = <<>> THEN <<>> ELSE Head(fs) \o <<"\n">> \o Framed(Tail(fs))

\* a loop that goes on whatever receiveMessage has returned
LoopBreaksNever(m) == FALSE

\* if (message.empty()) break;
LoopBreaks(m) == m = <<>>

\* handleClient with the std::string m that receiveMessage has returned: the
\* loop is left, or processClientMessage parses m
Returned(w, m) ==
    IF LoopBreaks(m)
    THEN /\ pc' = [pc EXCEPT ![w] = "cleanup"]
         /\ UNCHANGED req
    ELSE /\ pc' = [pc EXCEPT ![w] = "dispatch"]
         /\ req' = [req EXCEPT ![w] = parse(m)]

\* the client of the first connection writes one more frame and its newline,
\* without waiting for the response to the frames it wrote before
ClientWrites ==
    /\ pc[1] \notin {"idle", "done"}
    /\ frames < MaxFrames
    /\ \E f \in StreamFrames :
        /\ written' = written \o f \o <<"\n">>
        /\ inbound' = inbound \o f \o <<"\n">>
    /\ frames' = frames + 1
    /\ UNCHANGED <<mainPc, running, now, diskOk, users, file, usersMutex, sessions, sess,
                   fdOwner, pc, req, resp, existingSessionId, existingSession, out>>
    /\ UNCHANGED <<codecVars, lockVars, stopVars, rpc, rlen, rleft, spc, fullMessage,
                   totalSent, wire, rmessage, delivered, kpc, kSent>>

\* one turn of the loop of receiveMessage: recv returns the first n bytes
\* that wait in the socket (at most sizeof(buffer) - 1), they are appended to
\* message; with a newline in message, substr(0, pos) is returned and the
\* local message, with whatever follows the newline, is destroyed; without
\* one the length is tested and recv is called again
StreamRecv(w) ==
    /\ pc[w] = "receive"
    /\ \E n \in 1..Len(inbound) :
        /\ n <= BufferSize - 1
        /\ inbound' = SubSeq(inbound, n + 1, Len(inbound))
        /\ LET m == rmessage \o SubSeq(inbound, 1, n)
               pos == findNewline(m)
           IN  IF pos # 0
               THEN /\ rmessage' = <<>>
                    /\ delivered' = Append(delivered, SubSeq(m, 1, pos - 1))
                    /\ Returned(w, SubSeq(m, 1, pos - 1))
               ELSE IF Len(m) > MaxMessageLength
               THEN /\ rmessage' = <<>>
                    /\ UNCHANGED delivered
                    /\ Returned(w, <<>>)
               ELSE /\ rmessage' = m
                    /\ UNCHANGED <<delivered, pc, req>>
    /\ UNCHANGED <<mainPc, running, now, diskOk, users, file, usersMutex, sessions, sess,
                   fdOwner, resp, existingSessionId, existingSession, out, frames>>
    /\ UNCHANGED <<codecVars, lockVars, stopVars, rpc, rlen, rleft, spc, fullMessage,
                   totalSent, wire, written, kpc, kSent>>

\* received <= 0 with nothing waiting in the socket: the peer has closed, or
\* nothing came for 30 seconds; receiveMessage returns ""
StreamRecvFails(w) ==
    /\ pc[w] = "receive"
    /\ inbound = <<>>
    /\ rmessage' = <<>>
    /\ Returned(w, <<>>)
    /\ UNCHANGED <<mainPc, running, now, diskOk, users, file, usersMutex, sessions, sess,
                   fdOwner, resp, existingSessionId, existingSession, out, frames>>
    /\ UNCHANGED <<codecVars, lockVars, stopVars, rpc, rlen, rleft, spc, fullMessage,
                   totalSent, wire, written, inbound, delivered, kpc, kSent>>

NextStream ==
    \/ StartServer
    \/ Accept(1)
    \/ RegisterSession(1)
    \/ SendWelcome(1)
    \/ LoopCheck(1)
    \/ ClientWrites
    \/ StreamRecv(1)
    \/ StreamRecvFails(1)
    \/ UnknownCommand(1)
    \/ Quit(1)
    \/ Respond(1)
    \/ Cleanup(1)
    \/ CloseSocket(1)

SpecStream == Init /\ [][NextStream]_vars

\* C38: every frame the client has written is returned by receiveMessage, in
\* the order written: while the connection is served, the frames returned so
\* far, the bytes held in message and the bytes still unread make up all the
\* client wrote, none missing.
C38_NoByteLost ==
    (Serving(1) /\ sess[1].isActive)
        => written = Framed(delivered) \o rmessage \o inbound

\* C39: a frame that consists of the newline only ends the connection as a
\* lost connection does: receiveMessage returns the empty string, the loop of
\* handleClient is left with nothing dispatched and nothing written, and the
\* teardown that follows erases the session, closes the socket and writes
\* nothing either.
C39_EmptyFrameEndsConnection ==
    /\ [][delivered' = Append(delivered, <<>>)
            => /\ pc'[1] = "cleanup"
               /\ UNCHANGED <<out, req, resp, sessions, sess, fdOwner, users, file>>]_vars
    /\ [][pc[1] = "cleanup" /\ pc'[1] # "cleanup"
            => /\ pc'[1] = "close"
               /\ EntriesOf(sessions', 1) = {}
               /\ UNCHANGED out]_vars
    /\ [][pc[1] = "close" /\ pc'[1] # "close"
            => /\ pc'[1] = "done"
               /\ \A fd \in Fds : fdOwner'[fd] # 1
               /\ out'[1] = <<>>]_vars
    /\ [][pc[1] \in {"cleanup", "close", "done"} => pc'[1] # "dispatch"]_vars

\* the only frame of the connection was the empty one: the session is erased
\* and the socket is about to be closed; the connection has been written
\* WELCOME and nothing else
C39_Witness ==
    /\ pc[1] = "close"
    /\ delivered = << <<>> >>
    /\ EntriesOf(sessions, 1) = {}
    /\ out[1] = <<Welcome(sess[1].sessionId)>>

(***************************************************************************)
(* Two sendMessage calls on one socket                                     *)
(***************************************************************************)
\* "KICKED|..." + "\n": fullMessage of the sendMessage of handleLoginConflict
KickedLine == Kicked \o <<"\n">>

\* handleLoginConflict enters sendMessage(existingSession->getSocket(), ...)
\* while the thread of that session is in the sendMessage of its response
KickStart ==
    /\ kpc = "idle"
    /\ spc # "idle"
    /\ kpc' = "send"
    /\ kSent' = 0
    /\ UNCHANGED <<serverVars, codecVars, lockVars, stopVars, rpc, rlen, rleft, spc,
                   fullMessage, totalSent, wire, written, inbound, rmessage, delivered>>

\* one send of the evictor's loop: the socket takes k of the remaining bytes
KickSend ==
    /\ kpc = "send"
    /\ \E k \in 1..(Len(KickedLine) - kSent) :
         /\ wire' = wire \o SubSeq(KickedLine, kSent + 1, kSent + k)
         /\ kSent' = kSent + k
    /\ kpc' = IF kSent' < Len(KickedLine) THEN "send" ELSE "true"
    /\ UNCHANGED <<serverVars, codecVars, lockVars, stopVars, rpc, rlen, rleft, spc,
                   fullMessage, totalSent, written, inbound, rmessage, delivered>>

NextRace == SendStart \/ Send \/ KickStart \/ KickSend

SpecRace == Init /\ [][NextRace]_vars

\* C40: when the response of the evicted thread and the KICKED notice have
\* both been sent, the byte stream of the connection is one of the two frames
\* followed by the other (a response has at least one byte before its
\* newline).
C40_FramesContiguous ==
    (spc = "true" /\ kpc = "true" /\ Len(fullMessage) > 1)
        => wire \in {fullMessage \o KickedLine, KickedLine \o fullMessage}

====
